---- MODULE Spec2Model ----
(***************************************************************************)
(* A model of termai's tool surface (edit and write tools, the file-record *)
(* map) and of its agent loop (provider iterations, parallel tool          *)
(* dispatch, the editors' send handlers).                                  *)
(*                                                                         *)
(* Fourteen specifications share the module:                               *)
(*   Spec         the edit/write tools running against a small filesystem  *)
(*   AgentSpec    the agent loop and the send handlers: the message store  *)
(*   SessionSpec  the agent loop and its title job: the session store      *)
(*   RetrySpec    a call of the provider client, with its retries          *)
(*   LsSpec       calls of the ls tool on small and on large trees         *)
(*   SgSpec       calls of the sourcegraph tool and their formatting       *)
(*   SidebarSpec  the sidebar of modified files and the file events        *)
(*   EditsSpec    the edit calls of one assistant message, in parallel     *)
(*   PermSpec     permission requests and the dialog that answers them     *)
(*   RequestSpec  the request anthropicClient builds from a history        *)
(*   StreamSpec   a call of anthropicClient.stream and its consumer        *)
(*   GrantSpec    persistent grants for edits                              *)
(*   ViewSpec     the messages view and the message events                 *)
(*   AppSpec      appModel.Update: dialogs, pages and keys                 *)
(***************************************************************************)
EXTENDS Integers, Sequences, FiniteSets, TLC

VARIABLES
    fs,           \* the filesystem: path -> [kind, content, mtime]
    fileRecords,  \* tools.fileRecords: path -> [readTime]
    now,          \* the wall clock read by time.Now() and by file writes
    truns,        \* tool goroutines blocked in permissions.Request
    out,          \* what the last step of a tool run did and returned, until observed
    snapshots,    \* file snapshots (versions) created so far
    messages,     \* the message store: session -> sequence of messages
    aruns,        \* the goroutines running NewMessage, by slot
    sessions,     \* the session store: session -> [Title, PromptTokens, ...]
    tjobs,        \* the title goroutines started by NewMessage, by slot
    call,         \* a call of anthropicClient.send: attempts, wait, outcome
    ls,           \* a call of the ls tool: its input and what it returned
    sg,           \* a call of the sourcegraph tool: its input and what it returned
    files,        \* the file history: session -> path -> contents of the versions
    sidebar,      \* sidebarCmp: session, modFiles, the channel of its command
    edits,        \* the edit goroutines of one assistant message, by tool call
    perm,         \* the permission service and the dialog of appModel
    req,          \* a request built by anthropicClient from a history
    strm,         \* a call of anthropicClient.stream: its goroutine, channel and consumer
    grant,        \* the allow set of the permission service and the edit asking it
    mview,        \* messagesCmp, with the messages stored and their events on the way
    appm          \* appModel: the dialogs shown, the current page, the last message handled

vars == <<fs, fileRecords, now, truns, out, snapshots, messages, aruns,
          sessions, tjobs, call, ls, sg, files, sidebar, edits, perm, req,
           strm, grant, mview, appm>>

\* the state of the other tools, of the client's requests and streams and of
\* the components of the UI; no action of the edit and write tools run one
\* at a time, of the agent loop or of the provider client's send touches it
otherVars == <<ls, sg, files, sidebar, edits, perm, req, strm, grant, mview,
                appm>>
toolVars == <<fs, fileRecords, now, truns, out, snapshots, otherVars>>
storeVars == <<sessions, tjobs>>
clientVars == <<call>>
agentVars == <<messages, aruns, storeVars, clientVars, otherVars>>

----------------------------------------------------------------------------
(* Bounds *)

\* longest file content, in characters
MaxLen == 3
\* longest old_string / new_string / content parameter
MaxArg == 2
\* the clock stops advancing at this tick
MaxClock == 2

Alphabet == {"a", "b"}

StrsUpTo(n) == UNION {[1..k -> Alphabet] : k \in 0..n}

Contents == StrsUpTo(MaxLen)
Args == StrsUpTo(MaxArg)

\* NewMessage goroutines started in one behaviour
MaxSends == 2
\* provider iterations of one NewMessage call
MaxIter == 2
\* tool-use blocks in one assistant message
MaxCalls == 2
\* the largest token count of one response, in the session specification
MaxUsage == 1
\* the largest Retry-After value, in seconds
MaxRetryAfter == 3

Sessions == {"s1", "s2"}

\* tool goroutines that may be in flight at once
TRuns == {"t1"}

\* "/wd/d" and "/wd/d/g": the second lies in the directory named by the first
Paths == {"d", "d/g"}

\* the working directory itself, which always exists
Root == "/"

\* time.Time{}: the zero time, before every instant of the clock
ZeroTime == 0

----------------------------------------------------------------------------
(* Strings *)

Min(S) == CHOOSE x \in S : \A y \in S : x <= y
Max(S) == CHOOSE x \in S : \A y \in S : x >= y

\* the 0-based offsets at which t occurs in s (overlapping ones included)
Occurrences(s, t) ==
    {i \in 0..(Len(s) - Len(t)) : SubSeq(s, i + 1, i + Len(t)) = t}

\* strings.Index
Index(s, t) == IF Occurrences(s, t) = {} THEN -1 ELSE Min(Occurrences(s, t))

\* strings.LastIndex mistaken for strings.Index
LastIndexAsIndex(s, t) == Index(s, t)

\* strings.LastIndex
LastIndex(s, t) == IF Occurrences(s, t) = {} THEN -1 ELSE Max(Occurrences(s, t))

\* s[:i]
Prefix(s, i) == SubSeq(s, 1, i)

\* s[i:]
Suffix(s, i) == SubSeq(s, i + 1, Len(s))

----------------------------------------------------------------------------
(* The filesystem *)

NoFile == [kind |-> "none", content |-> <<>>, mtime |-> ZeroTime]
DirEntry == [kind |-> "dir", content |-> <<>>, mtime |-> ZeroTime]
FileEntry(c, t) == [kind |-> "file", content |-> c, mtime |-> t]

\* filepath.Dir
Dir(p) == IF p = "d/g" THEN "d" ELSE Root

KindOf(f, p) == IF p = Root THEN "dir" ELSE f[p].kind

\* os.Stat: "file", "dir", "notexist" (ENOENT) or "error" (ENOTDIR: a parent is a file)
Stat(f, p) ==
    CASE KindOf(f, Dir(p)) = "file" -> "error"
      [] KindOf(f, Dir(p)) = "none" -> "notexist"
      [] f[p].kind = "none" -> "notexist"
      [] OTHER -> f[p].kind

\* os.MkdirAll(dir): TRUE when it succeeds
MkdirAllOk(f, d) == KindOf(f, d) # "file"

\* os.MkdirAll(dir): the filesystem it leaves
MkdirAll(f, d) ==
    IF d # Root /\ f[d].kind = "none" THEN [f EXCEPT ![d] = DirEntry] ELSE f

\* os.WriteFile: TRUE when it succeeds
WriteFileOk(f, p) == KindOf(f, Dir(p)) = "dir" /\ f[p].kind # "dir"

\* os.WriteFile: the filesystem it leaves
WriteFile(f, p, c, t) == [f EXCEPT ![p] = FileEntry(c, t)]

\* a filesystem is well formed when "d/g" exists only inside a directory "d"
WellFormedFS(f) == f["d/g"].kind # "none" => f["d"].kind = "dir"

----------------------------------------------------------------------------
(* The file-record map *)

\* A record holds readTime and writeTime.  No code reads writeTime, so the
\* model keeps readTime alone; a path without a record has the zero readTime,
\* which is what getLastReadTime returns for it.
NoRecord == [readTime |-> ZeroTime]

\* recordFileRead at time t
recordFileRead(recs, p, t) == [recs EXCEPT ![p].readTime = t]

\* recordFileWrite at time t: sets writeTime and leaves readTime as it is
recordFileWrite(recs, p, t) == [recs EXCEPT ![p].readTime = recs[p].readTime]

\* getLastReadTime: the zero time when the path has no record
getLastReadTime(recs, p) == recs[p].readTime

\* the comparison of time.Time.After turned round
AfterReversed(t, u) == t < u

\* time.Time.After
After(t, u) == t > u

\* time.Time.Format(time.RFC3339): an instant printed to whole seconds
RFC3339(t) == [layout |-> "2006-01-02T15:04:05Z07:00", seconds |-> t]

----------------------------------------------------------------------------
(* The tools, up to their call of permissions.Request.                      *)
(* Each operator returns what the run did before it either returned or      *)
(* blocked in Request:                                                      *)
(*   res      "ask" when Request is reached, else the error returned        *)
(*   goErr    TRUE when the error is returned as a Go error (write tool)    *)
(*   mkdir    TRUE when os.MkdirAll was called and succeeded                *)
(*   action   the Action of the permission request                         *)
(*   reqPath  the Path of the permission request                            *)
(*   oldContent, newContent   the two sides of the diff                     *)
(*   modTime, lastRead        the timestamps printed in a staleness error   *)

NoStamp == [layout |-> "", seconds |-> ZeroTime]

Fail(msg, goErr, mkdir) ==
    [res |-> msg, goErr |-> goErr, mkdir |-> mkdir, action |-> "none",
     reqPath |-> Root, oldContent |-> <<>>, newContent |-> <<>>,
     modTime |-> NoStamp, lastRead |-> NoStamp]

Stale(goErr, mt, lr) ==
    [res |-> "has been modified since it was last read", goErr |-> goErr,
     mkdir |-> FALSE, action |-> "none", reqPath |-> Root,
     oldContent |-> <<>>, newContent |-> <<>>,
     modTime |-> RFC3339(mt), lastRead |-> RFC3339(lr)]

Ask(action, reqPath, mkdir, oldC, newC) ==
    [res |-> "ask", goErr |-> FALSE, mkdir |-> mkdir, action |-> action,
     reqPath |-> reqPath, oldContent |-> oldC, newContent |-> newC,
     modTime |-> NoStamp, lastRead |-> NoStamp]

\* editTool.createNewFile, lines 176-217
createNewFile(f, recs, p, content, hasCtx) ==
    CASE Stat(f, p) = "dir" -> Fail("path is a directory, not a file", FALSE, FALSE)
      [] Stat(f, p) = "file" -> Fail("file already exists", FALSE, FALSE)
      [] Stat(f, p) = "error" -> Fail("failed to access file", FALSE, FALSE)
      [] OTHER ->
           IF ~MkdirAllOk(f, Dir(p))
           THEN Fail("failed to create parent directories", FALSE, FALSE)
           ELSE IF ~hasCtx
           THEN Fail("session ID and message ID are required", FALSE, TRUE)
           ELSE Ask("create", Dir(p), TRUE, <<>>, content)

\* the tail taken from index+len(newString) instead of index+len(oldString)
SpliceByNewLen(oldContent, index, oldString, newString) ==
    Prefix(oldContent, index) \o newString \o Suffix(oldContent, index + Len(newString))

\* newContent := oldContent[:index] + newString + oldContent[index+len(oldString):]
Splice(oldContent, index, oldString, newString) ==
    Prefix(oldContent, index) \o newString \o Suffix(oldContent, index + Len(oldString))

\* the two read checks applied only to a path that has a record
editExistingUnread(f, recs, p, oldString, newString, hasCtx, action) ==
    CASE Stat(f, p) = "notexist" -> Fail("file not found", FALSE, FALSE)
      [] Stat(f, p) = "error" -> Fail("failed to access file", FALSE, FALSE)
      [] Stat(f, p) = "dir" -> Fail("path is a directory, not a file", FALSE, FALSE)
      [] OTHER ->
           IF getLastReadTime(recs, p) # ZeroTime
              /\ After(f[p].mtime, getLastReadTime(recs, p))
           THEN Stale(FALSE, f[p].mtime, getLastReadTime(recs, p))
           ELSE IF Index(f[p].content, oldString) = -1
           THEN Fail("old_string not found in file", FALSE, FALSE)
           ELSE IF Index(f[p].content, oldString) # LastIndex(f[p].content, oldString)
           THEN Fail("old_string appears multiple times in the file", FALSE, FALSE)
           ELSE IF ~hasCtx
           THEN Fail("session ID and message ID are required", FALSE, FALSE)
           ELSE Ask(action, Dir(p), FALSE, f[p].content,
                    Splice(f[p].content, Index(f[p].content, oldString),
                           oldString, newString))

\* the checks that deleteContent (lines 238-276) and replaceContent (lines
\* 326-364) share, then the new content and the permission request
editExisting(f, recs, p, oldString, newString, hasCtx, action) ==
    CASE Stat(f, p) = "notexist" -> Fail("file not found", FALSE, FALSE)
      [] Stat(f, p) = "error" -> Fail("failed to access file", FALSE, FALSE)
      [] Stat(f, p) = "dir" -> Fail("path is a directory, not a file", FALSE, FALSE)
      [] OTHER ->
           IF getLastReadTime(recs, p) = ZeroTime
           THEN Fail("you must read the file before editing it", FALSE, FALSE)
           ELSE IF After(f[p].mtime, getLastReadTime(recs, p))
           THEN Stale(FALSE, f[p].mtime, getLastReadTime(recs, p))
           ELSE IF Index(f[p].content, oldString) = -1
           THEN Fail("old_string not found in file", FALSE, FALSE)
           ELSE IF Index(f[p].content, oldString) # LastIndex(f[p].content, oldString)
           THEN Fail("old_string appears multiple times in the file", FALSE, FALSE)
           ELSE IF ~hasCtx
           THEN Fail("session ID and message ID are required", FALSE, FALSE)
           ELSE Ask(action, Dir(p), FALSE, f[p].content,
                    Splice(f[p].content, Index(f[p].content, oldString),
                           oldString, newString))

\* editTool.deleteContent, lines 236-306
deleteContent(f, recs, p, oldString, hasCtx) ==
    editExisting(f, recs, p, oldString, <<>>, hasCtx, "delete")

\* editTool.replaceContent, lines 324-394
replaceContent(f, recs, p, oldString, newString, hasCtx) ==
    editExisting(f, recs, p, oldString, newString, hasCtx, "replace")

\* the empty new_string tested before the empty old_string
editRunDeleteFirst(f, recs, p, oldString, newString, hasCtx) ==
    IF newString = <<>> THEN deleteContent(f, recs, p, oldString, hasCtx)
    ELSE IF oldString = <<>> THEN createNewFile(f, recs, p, newString, hasCtx)
    ELSE replaceContent(f, recs, p, oldString, newString, hasCtx)

\* editTool.Run, lines 133-160: the mode is chosen by the empty parameter
editRun(f, recs, p, oldString, newString, hasCtx) ==
    IF oldString = <<>> THEN createNewFile(f, recs, p, newString, hasCtx)
    ELSE IF newString = <<>> THEN deleteContent(f, recs, p, oldString, hasCtx)
    ELSE replaceContent(f, recs, p, oldString, newString, hasCtx)

\* the write tool without its comparison of old and new content
writeRunNoCompare(f, recs, p, content, hasCtx) ==
    IF content = <<>> THEN Fail("content is required", FALSE, FALSE)
    ELSE CASE Stat(f, p) = "dir" -> Fail("Path is a directory, not a file", FALSE, FALSE)
           [] Stat(f, p) = "error" -> Fail("error checking file", TRUE, FALSE)
           [] Stat(f, p) = "file" /\ After(f[p].mtime, getLastReadTime(recs, p)) ->
                Stale(FALSE, f[p].mtime, getLastReadTime(recs, p))
           [] OTHER ->
                IF ~MkdirAllOk(f, Dir(p))
                THEN Fail("error creating directory", TRUE, FALSE)
                ELSE IF ~hasCtx
                THEN Fail("session_id and message_id are required", TRUE, TRUE)
                ELSE Ask("create", p, TRUE,
                         IF Stat(f, p) = "file" THEN f[p].content ELSE <<>>,
                         content)

\* writeTool.Run, lines 375-451
writeRun(f, recs, p, content, hasCtx) ==
    IF content = <<>> THEN Fail("content is required", FALSE, FALSE)
    ELSE CASE Stat(f, p) = "dir" -> Fail("Path is a directory, not a file", FALSE, FALSE)
           [] Stat(f, p) = "error" -> Fail("error checking file", TRUE, FALSE)
           [] Stat(f, p) = "file" /\ After(f[p].mtime, getLastReadTime(recs, p)) ->
                Stale(FALSE, f[p].mtime, getLastReadTime(recs, p))
           [] Stat(f, p) = "file" /\ f[p].content = content ->
                Fail("already contains the exact content", FALSE, FALSE)
           [] OTHER ->
                IF ~MkdirAllOk(f, Dir(p))
                THEN Fail("error creating directory", TRUE, FALSE)
                ELSE IF ~hasCtx
                THEN Fail("session_id and message_id are required", TRUE, TRUE)
                ELSE Ask("create", p, TRUE,
                         IF Stat(f, p) = "file" THEN f[p].content ELSE <<>>,
                         content)

----------------------------------------------------------------------------
(* The diff of the old and the new content *)

\* the lines of a content; the contents of the model hold no newline
Lines(c) == IF c = <<>> THEN <<>> ELSE <<c>>

RECURSIVE LCS(_, _)
\* the length of the longest common subsequence of two sequences of lines
LCS(x, y) ==
    IF x = <<>> \/ y = <<>> THEN 0
    ELSE IF Head(x) = Head(y) THEN 1 + LCS(Tail(x), Tail(y))
    ELSE Max({LCS(Tail(x), y), LCS(x, Tail(y))})

\* git.GenerateGitDiffWithStats: the lines of the new content that are not
\* in the common subsequence are additions, those of the old are removals
GenerateGitDiffWithStats(oldContent, newContent) ==
    [Additions |-> Len(Lines(newContent)) - LCS(Lines(oldContent), Lines(newContent)),
     Removals |-> Len(Lines(oldContent)) - LCS(Lines(oldContent), Lines(newContent))]

----------------------------------------------------------------------------
(* The tools, after permissions.Request has returned p *)

\* lines 218-233, 307-321, 395-410 of the edit tool and 452-462 of the write
\* tool: return on denial, else write the file and record the write and the
\* read.  w is the blocked run, t the time of the write.
afterRequest(f, recs, w, p, t) ==
    IF ~p
    THEN [fs |-> f, recs |-> recs, res |-> "permission denied",
          goErr |-> w.tool = "write", additions |-> 0, removals |-> 0]
    ELSE IF ~WriteFileOk(f, w.path)
    THEN [fs |-> f, recs |-> recs, res |-> "failed to write file",
          goErr |-> w.tool = "write", additions |-> 0, removals |-> 0]
    ELSE [fs |-> WriteFile(f, w.path, w.pre.newContent, t),
          recs |-> recordFileRead(recordFileWrite(recs, w.path, t), w.path, t),
          res |-> "ok", goErr |-> FALSE,
          additions |->
             GenerateGitDiffWithStats(w.pre.oldContent, w.pre.newContent).Additions,
          removals |->
             GenerateGitDiffWithStats(w.pre.oldContent, w.pre.newContent).Removals]

----------------------------------------------------------------------------
(* What a run returns and what the agent loop stores for it *)

\* editTool.Run, lines 134-156: the text put before the error of each mode
errorPrefix(mode) ==
    CASE mode = "create" -> "error creating file: "
      [] mode = "delete" -> "error deleting content: "
      [] OTHER -> "error replacing content: "

\* What Run returns for the outcome res of a run: a Go error (goErr), or a
\* response.  The edit tool turns every error of its three helpers into an
\* error response with the prefix of the mode (lines 134-156); the write tool
\* answers with NewTextErrorResponse or returns the error.  A Content is the
\* sequence of the strings it is made of.
toolResponse(tool, mode, res, goErr) ==
    IF goErr THEN [err |-> res, Content |-> <<>>, IsError |-> FALSE]
    ELSE IF res = "ok" THEN [err |-> "none", Content |-> <<"ok">>, IsError |-> FALSE]
    ELSE IF tool = "edit"
    THEN [err |-> "none", Content |-> <<errorPrefix(mode), res>>, IsError |-> TRUE]
    ELSE [err |-> "none", Content |-> <<res>>, IsError |-> TRUE]

\* NewMessage, lines 295-302 of part_004: the result made of what Run returned
toolResult(response) ==
    IF response.err # "none"
    THEN [Content |-> <<"error running tool: ", response.err>>, IsError |-> TRUE]
    ELSE [Content |-> response.Content, IsError |-> response.IsError]

----------------------------------------------------------------------------
(* State of the tool runs *)

Idle == [pc |-> "idle"]

\* editTool.Run, lines 134-156: the mode the parameters select
Mode(tool, old, new) ==
    IF tool = "write" THEN "write"
    ELSE IF old = <<>> THEN "create"
    ELSE IF new = <<>> THEN "delete"
    ELSE "replace"

\* how often old occurs in the target, counted up to two
Occ(f, p, old) ==
    IF Cardinality(Occurrences(f[p].content, old)) >= 2 THEN 2
    ELSE Cardinality(Occurrences(f[p].content, old))

\* TRUE when two occurrences of old in the target share a character
Overlap(f, p, old) ==
    \E i, j \in Occurrences(f[p].content, old) : i < j /\ j < i + Len(old)

\* what a run found when it started: the target's kind, its last-read and
\* modification times, how often old_string occurs in it (and whether two
\* occurrences overlap), whether it already holds the new content, and the
\* kind of its parent directory
Seen(f, recs, p, old, new) ==
    [stat |-> Stat(f, p), lastRead |-> getLastReadTime(recs, p),
     mtime |-> f[p].mtime, occ |-> Occ(f, p, old),
     overlap |-> Overlap(f, p, old),
     same |-> (f[p].kind = "file" /\ f[p].content = new),
     parent |-> KindOf(f, Dir(p))]

NoSeen == [stat |-> "notexist", lastRead |-> ZeroTime, mtime |-> ZeroTime,
           occ |-> 0, overlap |-> FALSE, same |-> FALSE, parent |-> "dir"]

\* out.ev is "returned" when a run returned without reaching Request, "asked"
\* when it blocked in Request and "replied" when it returned after Request
NoOut ==
    [ev |-> "none", tool |-> "none", mode |-> "none", res |-> "none",
     action |-> "none", goErr |-> FALSE, reply |-> "none", touched |-> FALSE, wrote |-> FALSE,
     recChanged |-> FALSE, snapped |-> FALSE, modTime |-> NoStamp,
     lastRead |-> NoStamp, seen |-> NoSeen, old |-> <<>>, new |-> <<>>,
     oldContent |-> <<>>, after |-> NoFile, additions |-> 0, removals |-> 0]

\* anthropic.Usage of a response that reports nothing
NoUsage == [InputTokens |-> 0, OutputTokens |-> 0,
            CacheCreationInputTokens |-> 0, CacheReadInputTokens |-> 0]

\* a session as Sessions.Create leaves it
NewSession == [Title |-> "", PromptTokens |-> 0, CompletionTokens |-> 0, Cost |-> 0]

\* no title goroutine in the slot
NoJob == [pc |-> "none", sess |-> NewSession]

\* no call of the provider client under way
NoCall == [pc |-> "idle", attempts |-> 0, status |-> 0,
           retryAfter |-> [kind |-> "none", n |-> 0], after |-> 0, err |-> "none"]

\* no message stored, no NewMessage goroutine, no title goroutine, fresh
\* sessions, no provider call
\* no call of the ls tool
NoLs == [pc |-> "none"]

\* no call of the sourcegraph tool
NoSg == [pc |-> "none"]

\* no sidebar yet
NoSidebar == [pc |-> "none"]

\* no call of stream
NoStream ==
    [pc |-> "none", attempts |-> 0, cancelled |-> FALSE,
     consumer |-> "receiving", pending |-> "", cont |-> "",
     complete |-> FALSE, error |-> FALSE, events |-> 0,
     closed |-> 0, sentAfterClose |-> FALSE]

\* nothing allowed for the session and no edit asking
NoGrants ==
    [pc |-> "none", allowed |-> {}, persistent |-> {}, session |-> "",
     file |-> [dir |-> "", base |-> ""],
     request |-> [Path |-> "", ToolName |-> "", Action |-> ""],
     prompted |-> FALSE, granted |-> FALSE]

\* the messages view before a session is selected: nothing stored or shown
NoMessagesCmp ==
    [session |-> "", messages |-> <<>>, store |-> [s \in Sessions |-> <<>>],
     events |-> <<>>, created |-> 0,
     last |-> [Type |-> "", Payload |-> [ID |-> 0, SessionID |-> "", rev |-> 0]]]

\* appModel as New makes it: the chat page, no dialog, no message handled
NoAppModel ==
    [model |-> [showQuit |-> FALSE, showPermissions |-> FALSE, showHelp |-> FALSE,
                currentPage |-> "chat", previousPage |-> ""],
     last |-> [msg |-> "", showQuit |-> FALSE, showPermissions |-> FALSE,
               toQuit |-> FALSE, toPermissions |-> FALSE, toPage |-> FALSE]]

\* no request built
NoRequest == [pc |-> "none"]

\* requests made in one behaviour of the permission specification
MaxRequests == 3

\* the permission service with nothing pending and nothing allowed, no event
\* on the way to the UI, no dialog shown and no request resolved
NoPermissions ==
    [made |-> 0, pendingRequests |-> {}, sessionPermissions |-> {},
     events |-> <<>>, delivered |-> {}, showPermissions |-> FALSE,
     permissions |-> [id |-> 0, key |-> ""], resolved |-> [id \in 1..MaxRequests |-> 0]]

AgentAtRest ==
    /\ appm = NoAppModel
    /\ mview = NoMessagesCmp
    /\ grant = NoGrants
    /\ strm = NoStream
    /\ req = NoRequest
    /\ ls = NoLs
    /\ sg = NoSg
    /\ files = [s \in Sessions |-> [p \in {"d/g"} |-> <<>>]]
    /\ sidebar = NoSidebar
    /\ edits = [i \in 1..MaxCalls |-> Idle]
    /\ perm = NoPermissions
    /\ sessions = [s \in Sessions |-> NewSession]
    /\ tjobs = [r \in 1..MaxSends |-> NoJob]
    /\ call = NoCall
    /\ messages = [s \in Sessions |-> <<>>]
    /\ aruns = [r \in 1..MaxSends |->
                  [pc |-> "idle", session |-> "s1", iter |-> 0, msg |-> 0,
                   calls |-> <<>>, stopReason |-> "", usage |-> NoUsage,
                   used |-> NoUsage, sess |-> NewSession, finished |-> {},
                   toolResults |-> <<>>, anthropicToolResults |-> <<>>]]

InitialFS ==
    {f \in [Paths -> {NoFile, DirEntry} \cup {FileEntry(c, 1) : c \in Contents}] :
        /\ WellFormedFS(f)
        /\ f["d/g"].kind # "dir"}

Init ==
    /\ fs \in InitialFS
    /\ fileRecords = [p \in Paths |-> NoRecord]
    /\ now = 1
    /\ truns = [r \in TRuns |-> Idle]
    /\ out = NoOut
    /\ snapshots = {}
    /\ AgentAtRest

----------------------------------------------------------------------------
(* Actions of the tool specification *)

\* A run of tool on path p starts: it runs up to permissions.Request, where
\* it blocks, or returns before reaching it.
Start(r, tool, p, old, new, pre) ==
    /\ out.ev = "none"
    /\ truns[r].pc = "idle"
    /\ Len(pre.newContent) <= MaxLen
    /\ fs' = (IF pre.mkdir THEN MkdirAll(fs, Dir(p)) ELSE fs)
    /\ UNCHANGED <<fileRecords, now, snapshots, agentVars>>
    /\ truns' = IF pre.res = "ask"
                THEN [truns EXCEPT ![r] =
                        [pc |-> "waiting", tool |-> tool, path |-> p,
                         old |-> old, new |-> new, pre |-> pre,
                         touched |-> (fs' # fs)]]
                ELSE truns
    /\ out' = [NoOut EXCEPT
                 !.ev = IF pre.res = "ask" THEN "asked" ELSE "returned",
                 !.tool = tool,
                 !.mode = Mode(tool, old, new),
                 !.res = pre.res,
                 !.action = pre.action,
                 !.goErr = pre.goErr,
                 !.touched = (fs' # fs),
                 !.recChanged = (fileRecords' # fileRecords),
                 !.snapped = (snapshots' # snapshots),
                 !.modTime = pre.modTime,
                 !.lastRead = pre.lastRead,
                 !.new = new,
                 !.seen = Seen(fs, fileRecords, p, old, new)]

\* editTool.Run
EditStart(r, p, old, new, hasCtx) ==
    Start(r, "edit", p, old, new, editRun(fs, fileRecords, p, old, new, hasCtx))

\* writeTool.Run
WriteStart(r, p, content, hasCtx) ==
    Start(r, "write", p, <<>>, content, writeRun(fs, fileRecords, p, content, hasCtx))

\* permissions.Request returns p to the blocked run r, which runs to its end
Reply(r, p) ==
    /\ out.ev = "none"
    /\ truns[r].pc = "waiting"
    /\ UNCHANGED <<now, snapshots, agentVars>>
    /\ LET w == truns[r]
           a == afterRequest(fs, fileRecords, w, p, now)
       IN /\ fs' = a.fs
          /\ fileRecords' = a.recs
          /\ truns' = [truns EXCEPT ![r] = Idle]
          /\ out' = [NoOut EXCEPT
                       !.ev = "replied",
                       !.tool = w.tool,
                       !.mode = Mode(w.tool, w.old, w.new),
                       !.res = a.res,
                       !.goErr = a.goErr,
                       !.reply = (IF p THEN "granted" ELSE "denied"),
                       !.touched = (w.touched \/ a.fs # fs),
                       !.wrote = (a.fs # fs),
                       !.recChanged = (a.recs # fileRecords),
                       !.snapped = (snapshots' # snapshots),
                       !.action = w.pre.action,
                       !.old = w.old,
                       !.new = w.new,
                       !.oldContent = w.pre.oldContent,
                       !.after = a.fs[w.path],
                       !.additions = a.additions,
                       !.removals = a.removals]

\* the view tool reads an existing file and records the read
View(p) ==
    /\ out.ev = "none"
    /\ Stat(fs, p) = "file"
    /\ fileRecords' = recordFileRead(fileRecords, p, now)
    /\ fileRecords' # fileRecords
    /\ UNCHANGED <<fs, now, truns, out, snapshots, agentVars>>

\* the user changes a file on disk with some other program
UserModify(p, c) ==
    /\ out.ev = "none"
    /\ Stat(fs, p) = "file"
    /\ fs[p].content # c
    /\ fs' = [fs EXCEPT ![p] = FileEntry(c, now)]
    /\ UNCHANGED <<fileRecords, now, truns, out, snapshots, agentVars>>

\* time passes
Tick ==
    /\ out.ev = "none"
    /\ now < MaxClock
    /\ now' = now + 1
    /\ UNCHANGED <<fs, fileRecords, truns, out, snapshots, agentVars>>

\* the caller has taken note of what the last step of a run did
Observed ==
    /\ out.ev # "none"
    /\ out' = NoOut
    /\ UNCHANGED <<fs, fileRecords, now, truns, snapshots, agentVars>>

Next ==
    \/ \E r \in TRuns, p \in Paths, old \in Args, new \in Args, c \in BOOLEAN :
          EditStart(r, p, old, new, c)
    \/ \E r \in TRuns, p \in Paths, content \in Args, c \in BOOLEAN :
          WriteStart(r, p, content, c)
    \/ \E r \in TRuns, p \in BOOLEAN : Reply(r, p)
    \/ \E p \in Paths : View(p)
    \/ \E p \in Paths, c \in Contents : UserModify(p, c)
    \/ Tick
    \/ Observed

Spec == Init /\ [][Next]_vars

----------------------------------------------------------------------------
(* Properties of the edit and write tools *)

\* a step of a run before permissions.Request returned: it either returned
\* at once or blocked in Request
Started == out.ev \in {"returned", "asked"}

\* the run returned an error without having asked for permission
Refused == out.ev = "returned" /\ out.res \notin {"ok", "ask"}

\* C1: the edit and write tools change nothing in the filesystem (neither
\* the target file nor its parent directories) unless the permission request
\* of the run was approved; a denied run leaves the filesystem as it was.
C1_NoChangeWithoutApproval ==
    /\ \A r \in TRuns : truns[r].pc = "waiting" => ~truns[r].touched
    /\ (out.ev # "none" /\ out.touched) => out.reply = "granted"

\* C2: an edit in replace or delete mode, or a write over an existing file,
\* on a path never recorded as read is refused: no permission request, and
\* the file and the file-record map stay as they were.
C2_UnreadIsRefused ==
    (/\ Started
     /\ out.mode \in {"replace", "delete", "write"}
     /\ out.seen.stat = "file"
     /\ out.seen.lastRead = ZeroTime)
    => (Refused /\ ~out.touched /\ ~out.recChanged)

C2_Witness ==
    /\ Refused
    /\ out.mode = "replace"
    /\ out.seen.stat = "file"
    /\ out.seen.lastRead = ZeroTime
    /\ out.res = "you must read the file before editing it"

\* C3: when an existing file was modified after the last read recorded for
\* its path, edit (replace, delete) and write are refused without a
\* permission request, a write or a snapshot; the error (of every call that
\* passes parameter validation) says the file has been modified since it was
\* last read and holds both timestamps in RFC3339.
C3_StaleIsRefused ==
    (/\ Started
     /\ out.mode \in {"replace", "delete", "write"}
     /\ out.seen.stat = "file"
     /\ out.seen.lastRead # ZeroTime
     /\ out.seen.mtime > out.seen.lastRead)
    => /\ Refused /\ ~out.touched /\ ~out.snapped
       /\ (out.res # "content is required") =>
             /\ out.res = "has been modified since it was last read"
             /\ out.modTime = RFC3339(out.seen.mtime)
             /\ out.lastRead = RFC3339(out.seen.lastRead)

C3_Witness ==
    /\ Refused
    /\ out.mode = "write"
    /\ out.seen.lastRead # ZeroTime
    /\ out.seen.mtime > out.seen.lastRead
    /\ out.res = "has been modified since it was last read"
    /\ out.modTime.seconds > out.lastRead.seconds

\* the file was read and has not been modified since
Fresh == out.seen.lastRead # ZeroTime /\ out.seen.mtime <= out.seen.lastRead

\* C4: in replace and delete modes an old_string that occurs zero times or
\* more than once (overlapping occurrences included) makes the edit fail
\* with no permission request and the file unchanged; once the read checks
\* have passed the error is 'not found' for zero and 'appears multiple
\* times' for several.
C4_NotUniqueIsRefused ==
    (/\ Started
     /\ out.mode \in {"replace", "delete"}
     /\ out.seen.stat = "file"
     /\ out.seen.occ # 1)
    => /\ Refused /\ ~out.touched
       /\ (Fresh /\ out.seen.occ = 0) => out.res = "old_string not found in file"
       /\ (Fresh /\ out.seen.occ = 2) =>
             out.res = "old_string appears multiple times in the file"

C4_Witness ==
    /\ Refused
    /\ out.mode = "replace"
    /\ out.seen.overlap
    /\ out.res = "old_string appears multiple times in the file"

\* C5: when old_string occurs exactly once and permission is granted, the
\* edit leaves the file equal to the content the run read with that one
\* occurrence replaced by new_string (removed in delete mode) and the rest
\* unchanged.
C5_SingleOccurrenceReplaced ==
    (/\ out.ev = "replied"
     /\ out.mode \in {"replace", "delete"}
     /\ out.reply = "granted")
    => /\ out.res = "ok"
       /\ Cardinality(Occurrences(out.oldContent, out.old)) = 1
       /\ out.after.kind = "file"
       /\ \A i \in Occurrences(out.oldContent, out.old) :
             out.after.content =
                SubSeq(out.oldContent, 1, i) \o out.new
                   \o SubSeq(out.oldContent, i + Len(out.old) + 1, Len(out.oldContent))

C5_Witness ==
    /\ out.ev = "replied"
    /\ out.mode = "replace"
    /\ out.reply = "granted"
    /\ out.wrote
    /\ Index(out.oldContent, out.old) > 0
    /\ Index(out.oldContent, out.old) + Len(out.old) < Len(out.oldContent)

CreateErrors ==
    {"path is a directory, not a file", "file already exists",
     "failed to access file", "failed to create parent directories",
     "session ID and message ID are required"}

\* C6: an edit with an empty old_string is handled as file creation whatever
\* new_string is: it fails and changes nothing when the path exists as a
\* file or as a directory, and otherwise, once permitted, creates the file
\* with content new_string.
C6_EmptyOldStringCreates ==
    /\ (Started /\ out.mode = "create") =>
          /\ out.ev = "returned" => out.res \in CreateErrors
          /\ out.ev = "asked" => out.action = "create" /\ out.seen.stat = "notexist"
          /\ out.seen.stat \in {"file", "dir"} =>
                /\ Refused /\ ~out.touched /\ ~out.recChanged
                /\ out.res \in {"path is a directory, not a file", "file already exists"}
    /\ (out.ev = "replied" /\ out.mode = "create" /\ out.reply = "granted") =>
          /\ out.res = "ok"
          /\ out.after = FileEntry(out.new, now)

C6_Witness ==
    /\ out.ev = "replied"
    /\ out.mode = "create"
    /\ out.reply = "granted"
    /\ out.new = <<>>
    /\ out.after.kind = "file"

StoredResult == toolResult(toolResponse(out.tool, out.mode, out.res, out.goErr))

\* C17: a run whose permission request is denied ends as a tool result with
\* is_error = true and the content "permission denied".
C17_DeniedResult ==
    (out.ev = "replied" /\ out.reply = "denied") =>
        /\ StoredResult.IsError
        /\ StoredResult.Content = <<"permission denied">>

\* C19: the permission is requested with the diff of old and new content
\* before anything is written or snapshotted, and a run that wrote the file
\* has created a snapshot when it returns.
C19_DiffAskWriteSnapshot ==
    /\ \A r \in TRuns : truns[r].pc = "waiting" =>
          /\ truns[r].pre.action \in {"create", "delete", "replace"}
          /\ (out.ev = "asked" => ~out.wrote /\ ~out.snapped)
    /\ (out.ev = "replied" /\ out.wrote) => out.snapped

\* C20: a successful edit or write reports additions >= 0, removals >= 0 and
\* additions + removals > 0.
C20_DiffIsNotEmpty ==
    (out.ev = "replied" /\ out.res = "ok") =>
        /\ out.additions >= 0
        /\ out.removals >= 0
        /\ out.additions + out.removals > 0

\* C21: for edit-replace, edit-delete and write-overwrite, the error of a
\* call (with valid parameters) on an existing file whose path was never
\* read is the "must read before editing" error.
C21_UnreadErrorIsMustRead ==
    (/\ Started
     /\ out.mode \in {"replace", "delete", "write"}
     /\ out.new # <<>> \/ out.mode # "write"
     /\ out.seen.stat = "file"
     /\ out.seen.lastRead = ZeroTime)
    => out.res = "you must read the file before editing it"

----------------------------------------------------------------------------
(* The agent loop: anthropicProvider.NewMessage and the editors that start it *)

\* the tools registered with the provider, and a name that is not registered
ToolNames == {"ls", "nope"}
Registered == {"ls"}

\* toolResults[index] not yet assigned
NoResult == [ToolCallID |-> <<>>, IsError |-> FALSE, Content |-> "unset"]

\* a run that has started and not returned
Active(r) == aruns[r].pc \notin {"idle", "done"}

\* IsSessionBusy: the session has an active run
IsSessionBusy(s) == \E r \in 1..MaxSends : Active(r) /\ aruns[r].session = s

FreeSlots == {r \in 1..MaxSends : aruns[r].pc = "idle"}

\* go provider.NewMessage(sessionID, content)
\* NewMessage has returned: its locals are gone
Returned(run) ==
    [pc |-> "done", session |-> run.session, iter |-> run.iter, msg |-> 0,
     calls |-> <<>>, stopReason |-> "", usage |-> NoUsage, used |-> run.used,
     sess |-> NewSession, finished |-> {}, toolResults |-> <<>>,
     anthropicToolResults |-> <<>>]

Spawn(s) ==
    [aruns EXCEPT ![Min(FreeSlots)] =
        [pc |-> "list", session |-> s, iter |-> 0, msg |-> 0, calls |-> <<>>,
         stopReason |-> "", usage |-> NoUsage, used |-> NoUsage,
         sess |-> NewSession, finished |-> {}, toolResults |-> <<>>,
         anthropicToolResults |-> <<>>]]

\* repl editorCmp.Send, lines 538-569: the goroutine is started whatever the
\* session is doing
Send(s) ==
    /\ FreeSlots # {}
    /\ aruns' = Spawn(s)
    /\ UNCHANGED <<messages, toolVars, storeVars, clientVars>>

\* chat editorCmp.send, lines 57-74, with a non-empty text: nothing is sent
\* while the session is busy, else a SendMsg is emitted.  The agent that
\* receives the SendMsg is not part of the sources; it is taken to start the
\* same loop.
ChatSend(s) ==
    /\ ~IsSessionBusy(s)
    /\ FreeSlots # {}
    /\ aruns' = Spawn(s)
    /\ UNCHANGED <<messages, toolVars, storeVars, clientVars>>

\* lines 74-77: a.app.Messages.List
List(r) ==
    /\ aruns[r].pc = "list"
    /\ aruns' = [aruns EXCEPT ![r].pc = "user"]
    /\ UNCHANGED <<messages, toolVars, storeVars, clientVars>>

\* A stored message: its role, the goroutine and provider iteration that
\* stored it, the ids of its tool calls, its tool results and the finish
\* reason stored with it.  The text of a message is not modelled.
\* CreateMessageParams is given a role and a content only and Update is given
\* content and tool calls only, so no message ever gets a finish reason.
NoFinish == "none"

UserMessage(r) ==
    [role |-> "user", run |-> r, iter |-> 0, toolCalls |-> <<>>,
     toolResults |-> <<>>, finish |-> NoFinish]

\* lines 105-113: the user message is stored
CreateUserMessage(r) ==
    /\ aruns[r].pc = "user"
    /\ messages' = [messages EXCEPT ![aruns[r].session] = Append(@, UserMessage(r))]
    /\ aruns' = [aruns EXCEPT ![r].pc = "stream"]
    /\ UNCHANGED <<toolVars, storeVars, clientVars>>

AssistantMessage(r, iter) ==
    [role |-> "assistant", run |-> r, iter |-> iter, toolCalls |-> <<>>,
     toolResults |-> <<>>, finish |-> NoFinish]

\* lines 161-185: a provider iteration starts and its empty assistant message
\* is stored
StartStream(r) ==
    /\ aruns[r].pc = "stream"
    /\ aruns[r].iter < MaxIter
    /\ messages' = [messages EXCEPT ![aruns[r].session] =
                       Append(@, AssistantMessage(r, aruns[r].iter + 1))]
    /\ aruns' = [aruns EXCEPT ![r].pc = "streaming",
                              ![r].iter = @ + 1,
                              ![r].msg = Len(messages[aruns[r].session]) + 1,
                              ![r].calls = <<>>,
                              ![r].toolResults = <<>>,
                              ![r].anthropicToolResults = <<>>]
    /\ UNCHANGED <<toolVars, storeVars, clientVars>>

\* lines 210-213: the stream ends with an error (the connection is lost, the
\* request is cancelled) and NewMessage returns it
StreamError(r) ==
    /\ aruns[r].pc = "streaming"
    /\ aruns' = [aruns EXCEPT ![r] = Returned(@)]
    /\ UNCHANGED <<messages, toolVars, storeVars, clientVars>>

\* the tool-use blocks of a response: ids that no other response uses, and
\* the names the model chose
ToolCalls(r, names) ==
    [i \in 1..Len(names) |-> [ID |-> <<r, aruns[r].iter, i>>, Name |-> names[i]]]

IDs(calls) == [i \in DOMAIN calls |-> calls[i].ID]

\* the stop reasons the provider answers this request with (the request sets
\* no stop sequence)
StopReasons == {"end_turn", "max_tokens", "tool_use"}

\* anthropicClient.finishReason, lines 532-545
finishReason(reason) ==
    CASE reason = "end_turn" -> "end_turn"
      [] reason = "max_tokens" -> "max_tokens"
      [] reason = "tool_use" -> "tool_use"
      [] reason = "stop_sequence" -> "end_turn"
      [] OTHER -> "unknown"

\* The responses the provider sends: tool_use comes with at least one
\* tool-use block, end_turn with none, and a response cut off at max_tokens
\* holds the blocks that were started.
Response(names, reason) ==
    /\ reason \in StopReasons
    /\ reason = "tool_use" => names # <<>>
    /\ reason = "end_turn" => names = <<>>

\* lines 215-253: the stream ends; the tool calls are collected and, when
\* there are any, the message is updated with them
EndStream(r, names, reason) ==
    /\ aruns[r].pc = "streaming"
    /\ Response(names, reason)
    /\ Len(names) > 0 => aruns[r].iter < MaxIter
    /\ messages' = [messages EXCEPT ![aruns[r].session][aruns[r].msg].toolCalls =
                       IDs(ToolCalls(r, names))]
    /\ aruns' = [aruns EXCEPT ![r].pc = "session", ![r].calls = ToolCalls(r, names),
                              ![r].stopReason = reason]
    /\ UNCHANGED <<toolVars, storeVars, clientVars>>

\* lines 255-321: the session's usage is saved; with no tool call the loop
\* ends, else one goroutine per tool call is started.  The response is not
\* read again after its usage.
SaveSession(r) ==
    /\ aruns[r].pc = "session"
    /\ aruns' = IF aruns[r].calls = <<>>
                THEN [aruns EXCEPT ![r] = Returned(@)]
                ELSE [aruns EXCEPT ![r].pc = "tools",
                                   ![r].stopReason = "",
                                   ![r].toolResults =
                                       [i \in 1..Len(aruns[r].calls) |-> NoResult]]
    /\ UNCHANGED <<messages, toolVars, storeVars, clientVars>>

\* lines 288-309: what a tool goroutine makes of its call; isError is what
\* the tool reported (or that it returned a Go error)
taskResult(toolCall, isError) ==
    IF toolCall.Name \in Registered
    THEN [ToolCallID |-> toolCall.ID, IsError |-> isError,
          Content |-> IF isError THEN "error" ELSE "output"]
    ELSE [ToolCallID |-> toolCall.ID, IsError |-> FALSE, Content |-> "tool not found"]

\* the result put where the previous goroutine left off
storeResultInOrder(results, index, result) ==
    [results EXCEPT ![Min({i \in DOMAIN results : results[i] = NoResult})] = result]

\* line 314: toolResults[index] = ...
storeResult(results, index, result) == [results EXCEPT ![index] = result]

\* lines 311-321: the goroutine of call index ends: it stores its result at
\* its own index, appends to anthropicToolResults and leaves the wait group.
\* The goroutines append to the shared slice with no lock, so an append may
\* start from a slice that misses appends made meanwhile: kept is the number
\* of earlier appends that survive.
ToolDone(r, index, isError, kept) ==
    /\ aruns[r].pc = "tools"
    /\ index \in DOMAIN aruns[r].calls
    /\ index \notin aruns[r].finished
    /\ kept <= Len(aruns[r].anthropicToolResults)
    /\ aruns' = [aruns EXCEPT
                   ![r].toolResults =
                       storeResult(@, index, taskResult(aruns[r].calls[index], isError)),
                   ![r].anthropicToolResults =
                       Append(SubSeq(@, 1, kept), aruns[r].calls[index].ID),
                   ![r].finished = @ \cup {index}]
    /\ UNCHANGED <<messages, toolVars, storeVars, clientVars>>

\* the tool message without the results of failed calls
ToolMessageOfSuccesses(r) ==
    [role |-> "tool", run |-> r, iter |-> aruns[r].iter, toolCalls |-> <<>>,
     toolResults |-> SelectSeq(aruns[r].toolResults, LAMBDA x : ~x.IsError),
     finish |-> NoFinish]

\* lines 325-329: the tool message built from toolResults
ToolMessage(r) ==
    [role |-> "tool", run |-> r, iter |-> aruns[r].iter, toolCalls |-> <<>>,
     toolResults |-> aruns[r].toolResults, finish |-> NoFinish]

\* lines 323-335: wg.Wait returns once every goroutine has ended; the tool
\* message is stored and the loop goes round
CreateToolMessage(r) ==
    /\ aruns[r].pc = "tools"
    /\ aruns[r].finished = DOMAIN aruns[r].calls
    /\ messages' = [messages EXCEPT ![aruns[r].session] = Append(@, ToolMessage(r))]
    /\ aruns' = [aruns EXCEPT ![r].pc = "stream", ![r].calls = <<>>,
                              ![r].finished = {}, ![r].toolResults = <<>>]
    /\ UNCHANGED <<toolVars, storeVars, clientVars>>

Names == UNION {[1..k -> ToolNames] : k \in 0..MaxCalls}

AgentInit ==
    /\ fs = [p \in Paths |-> NoFile]
    /\ fileRecords = [p \in Paths |-> NoRecord]
    /\ now = 1
    /\ truns = [r \in TRuns |-> Idle]
    /\ out = NoOut
    /\ snapshots = {}
    /\ AgentAtRest

AgentNext ==
    \/ \E s \in Sessions : Send(s)
    \/ \E s \in Sessions : ChatSend(s)
    \/ \E r \in 1..MaxSends : List(r)
    \/ \E r \in 1..MaxSends : CreateUserMessage(r)
    \/ \E r \in 1..MaxSends : StartStream(r)
    \/ \E r \in 1..MaxSends : StreamError(r)
    \/ \E r \in 1..MaxSends, names \in Names, reason \in StopReasons :
          EndStream(r, names, reason)
    \/ \E r \in 1..MaxSends : SaveSession(r)
    \/ \E r \in 1..MaxSends, i \in 1..MaxCalls, e \in BOOLEAN, kept \in 0..MaxCalls :
          ToolDone(r, i, e, kept)
    \/ \E r \in 1..MaxSends : CreateToolMessage(r)

AgentSpec == AgentInit /\ [][AgentNext]_vars


----------------------------------------------------------------------------
(* Properties of the agent loop *)

Positions(s) == DOMAIN messages[s]

\* the positions in session s of the tool messages that answer one of ids
Answers(s, ids) ==
    {j \in Positions(s) :
        /\ messages[s][j].role = "tool"
        /\ \E i \in DOMAIN messages[s][j].toolResults :
              \E x \in DOMAIN ids : messages[s][j].toolResults[i].ToolCallID = ids[x]}

\* the goroutine that stored message m is still dispatching m's tool calls
Dispatching(m) ==
    /\ aruns[m.run].iter = m.iter
    /\ aruns[m.run].pc \in {"session", "tools"}

\* C8: the tool calls of one provider message are answered by exactly one
\* tool message, stored only after every task has finished (none while the
\* calls are being dispatched, one from then on); it comes after the
\* assistant message and its i-th result carries the id of the i-th call,
\* whatever the order in which the tasks finished.
C8_OneToolMessageInCallOrder ==
    \A s \in Sessions : \A k \in Positions(s) :
        LET m == messages[s][k] IN
        (m.role = "assistant" /\ m.toolCalls # <<>>) =>
            /\ Cardinality(Answers(s, m.toolCalls)) = IF Dispatching(m) THEN 0 ELSE 1
            /\ \A j \in Answers(s, m.toolCalls) :
                  /\ j > k
                  /\ Len(messages[s][j].toolResults) = Len(m.toolCalls)
                  /\ \A i \in DOMAIN m.toolCalls :
                        messages[s][j].toolResults[i].ToolCallID = m.toolCalls[i]

\* two calls were dispatched, the second finished first, and the tool message
\* is stored
C8_Witness ==
    \E r \in 1..MaxSends :
        /\ aruns[r].pc = "stream"
        /\ Len(aruns[r].anthropicToolResults) = 2
        /\ aruns[r].anthropicToolResults[1] = <<r, aruns[r].iter, 2>>
        /\ aruns[r].anthropicToolResults[2] = <<r, aruns[r].iter, 1>>
        /\ \E j \in Positions(aruns[r].session) :
              LET t == messages[aruns[r].session][j] IN
              /\ t.role = "tool"
              /\ Len(t.toolResults) = 2
              /\ t.toolResults[1].ToolCallID = <<r, aruns[r].iter, 1>>
              /\ t.toolResults[2].ToolCallID = <<r, aruns[r].iter, 2>>

\* C9: when an assistant message with tool calls is followed by a further
\* provider iteration of the same call of NewMessage, every one of its tool
\* calls has a tool result in a message stored between the two.
C9_ToolCallsAnsweredBeforeNextIteration ==
    \A s \in Sessions : \A k, n \in Positions(s) :
        LET m == messages[s][k]
            next == messages[s][n]
        IN  (/\ m.role = "assistant" /\ next.role = "assistant"
             /\ m.run = next.run
             /\ next.iter > m.iter) =>
                \A x \in DOMAIN m.toolCalls :
                    \E j \in Positions(s) :
                        /\ k < j /\ j < n
                        /\ messages[s][j].role = "tool"
                        /\ \E i \in DOMAIN messages[s][j].toolResults :
                              messages[s][j].toolResults[i].ToolCallID = m.toolCalls[x]

\* a tool call failed, its result was stored and the next iteration started
C9_Witness ==
    \E s \in Sessions : \E k, j, n \in Positions(s) :
        /\ k < j /\ j < n
        /\ messages[s][k].role = "assistant"
        /\ messages[s][k].toolCalls # <<>>
        /\ messages[s][j].role = "tool"
        /\ messages[s][j].run = messages[s][k].run
        /\ \E i \in DOMAIN messages[s][j].toolResults :
              messages[s][j].toolResults[i].IsError
        /\ messages[s][n].role = "assistant"
        /\ messages[s][n].run = messages[s][k].run
        /\ messages[s][n].iter = messages[s][k].iter + 1

\* C10: a session never has two active runs.
C10_OneActiveRunPerSession ==
    \A r1, r2 \in 1..MaxSends :
        (r1 # r2 /\ Active(r1) /\ Active(r2)) => aruns[r1].session # aruns[r2].session

\* C11: a run cancelled while the provider is streaming settles with its
\* assistant message's finish reason set to canceled.  (The tool goroutines
\* are given context.TODO(), so nothing cancels a run while tools are running.)
C11_CancelledRunIsMarkedCanceled ==
    [][\A r \in 1..MaxSends :
          StreamError(r) =>
             messages'[aruns[r].session][aruns[r].msg].finish = "canceled"]_vars

\* C12: after a provider iteration the tool calls are dispatched, and a
\* further provider call made, exactly when the finish reason is tool_use;
\* with any other finish reason the run ends.
C12_DispatchIffToolUse ==
    [][\A r \in 1..MaxSends :
          SaveSession(r) =>
             /\ aruns'[r].pc = "tools" <=> finishReason(aruns[r].stopReason) = "tool_use"
             /\ aruns'[r].pc = "done" <=> finishReason(aruns[r].stopReason) # "tool_use"]_vars

\* C18: the result of a call that names an unregistered tool is marked as an
\* error.
C18_UnknownToolIsError ==
    \A s \in Sessions : \A j \in Positions(s) :
        \A i \in DOMAIN messages[s][j].toolResults :
            messages[s][j].toolResults[i].Content = "tool not found"
               => messages[s][j].toolResults[i].IsError

----------------------------------------------------------------------------
(* The session store: the loop's session update and the title goroutine *)

\* lines 74-103: a.app.Messages.List, and the title goroutine started when
\* the session has no message yet
ListAndTitle(r) ==
    /\ aruns[r].pc = "list"
    /\ aruns' = [aruns EXCEPT ![r].pc = "user"]
    /\ tjobs' = IF Len(messages[aruns[r].session]) = 0
                THEN [tjobs EXCEPT ![r] = [pc |-> "generate", sess |-> NewSession]]
                ELSE tjobs
    /\ UNCHANGED <<messages, sessions, toolVars, clientVars>>

\* lines 86-90: generateSessionTitle returns a title, or fails (or runs into
\* its 30 s timeout) and the goroutine ends
GenerateTitle(r, ok) ==
    /\ tjobs[r].pc = "generate"
    /\ tjobs' = [tjobs EXCEPT ![r] = IF ok THEN [@ EXCEPT !.pc = "get"] ELSE NoJob]
    /\ UNCHANGED <<messages, aruns, sessions, toolVars, clientVars>>

\* lines 92-96: the title goroutine gets the session and sets its title
TitleGet(r) ==
    /\ tjobs[r].pc = "get"
    /\ tjobs' = [tjobs EXCEPT ![r] =
                    [pc |-> "save",
                     sess |-> [sessions[aruns[r].session] EXCEPT !.Title = "title"]]]
    /\ UNCHANGED <<messages, aruns, sessions, toolVars, clientVars>>

\* Sessions.Save(session): the session's row is replaced by the struct given
Save(store, s, session) == [store EXCEPT ![s] = session]

\* lines 97-100: the title goroutine saves the session it got
TitleSave(r) ==
    /\ tjobs[r].pc = "save"
    /\ sessions' = Save(sessions, aruns[r].session, tjobs[r].sess)
    /\ tjobs' = [tjobs EXCEPT ![r] = NoJob]
    /\ UNCHANGED <<messages, aruns, toolVars, clientVars>>

\* models.SupportedModels[Claude37Sonnet], the default big model: its prices
\* per million tokens, in hundredths of a dollar
CostPer1MIn == 300
CostPer1MInCached == 375
CostPer1MOutCached == 30
CostPer1MOut == 1500

\* the usages a response can report
Usages ==
    [InputTokens : 0..MaxUsage, OutputTokens : 0..MaxUsage,
     CacheCreationInputTokens : 0..MaxUsage, CacheReadInputTokens : 0..MaxUsage]

\* lines 255-258: the cost of a response.  The model's prices are per million
\* tokens and in hundredths of a dollar, so the unit of a cost is 1e-8
\* dollars and the division by 1_000_000 is in the unit.
Cost(usage) ==
    CostPer1MInCached * usage.CacheCreationInputTokens
      + CostPer1MOutCached * usage.CacheReadInputTokens
      + CostPer1MIn * usage.InputTokens
      + CostPer1MOut * usage.OutputTokens

\* lines 255-266: the loop gets the session and adds the usage of the
\* response (newAnthropicMessage.Usage) to its copy
GetSession(r, usage) ==
    /\ aruns[r].pc = "session"
    /\ aruns' = [aruns EXCEPT
                   ![r].pc = "save",
                   ![r].usage = usage,
                   ![r].sess =
                      [sessions[aruns[r].session] EXCEPT
                          !.Cost = @ + Cost(usage),
                          !.CompletionTokens = @ + usage.OutputTokens,
                          !.PromptTokens = @ + usage.InputTokens]]
    /\ UNCHANGED <<messages, sessions, tjobs, toolVars, clientVars>>

\* the sum of two usages
AddUsage(u, v) ==
    [InputTokens |-> u.InputTokens + v.InputTokens,
     OutputTokens |-> u.OutputTokens + v.OutputTokens,
     CacheCreationInputTokens |->
        u.CacheCreationInputTokens + v.CacheCreationInputTokens,
     CacheReadInputTokens |-> u.CacheReadInputTokens + v.CacheReadInputTokens]

\* lines 268-287: the loop saves the session it got; with no tool call the
\* loop ends, else one goroutine per tool call is started.  used keeps the
\* sum of the usages of the responses whose iteration got this far.
SaveUsage(r) ==
    /\ aruns[r].pc = "save"
    /\ sessions' = Save(sessions, aruns[r].session, aruns[r].sess)
    /\ aruns' = IF aruns[r].calls = <<>>
                THEN [aruns EXCEPT
                        ![r] = Returned([@ EXCEPT !.used = AddUsage(@, aruns[r].usage)])]
                ELSE [aruns EXCEPT ![r].pc = "tools",
                                   ![r].stopReason = "",
                                   ![r].used = AddUsage(@, aruns[r].usage),
                                   ![r].usage = NoUsage,
                                   ![r].sess = NewSession,
                                   ![r].toolResults =
                                       [i \in 1..Len(aruns[r].calls) |-> NoResult]]
    /\ UNCHANGED <<messages, tjobs, toolVars, clientVars>>

\* One call of NewMessage is followed, with the title goroutine it starts.
SessionNext ==
    \/ \E s \in Sessions : FreeSlots = 1..MaxSends /\ Send(s)
    \/ \E r \in 1..MaxSends : ListAndTitle(r)
    \/ \E r \in 1..MaxSends, ok \in BOOLEAN : GenerateTitle(r, ok)
    \/ \E r \in 1..MaxSends : TitleGet(r)
    \/ \E r \in 1..MaxSends : TitleSave(r)
    \/ \E r \in 1..MaxSends : CreateUserMessage(r)
    \/ \E r \in 1..MaxSends : StartStream(r)
    \/ \E r \in 1..MaxSends : StreamError(r)
    \/ \E r \in 1..MaxSends, names \in Names, reason \in StopReasons :
          EndStream(r, names, reason)
    \/ \E r \in 1..MaxSends, usage \in Usages : GetSession(r, usage)
    \/ \E r \in 1..MaxSends : SaveUsage(r)
    \/ \E r \in 1..MaxSends, i \in 1..MaxCalls, e \in BOOLEAN, kept \in 0..MaxCalls :
          ToolDone(r, i, e, kept)
    \/ \E r \in 1..MaxSends : CreateToolMessage(r)

SessionSpec == AgentInit /\ [][SessionNext]_vars

\* C13: the stored prompt_tokens, completion_tokens and cost of a session
\* never decrease from one stored state to the next.
C13_CountersOnlyGrow ==
    [][\A s \in Sessions :
          /\ sessions'[s].PromptTokens >= sessions[s].PromptTokens
          /\ sessions'[s].CompletionTokens >= sessions[s].CompletionTokens
          /\ sessions'[s].Cost >= sessions[s].Cost]_vars

\* C22: every provider iteration that completes adds the input tokens of
\* its response to the session's prompt_tokens and the output tokens to its
\* completion_tokens, once, and a stream that failed adds nothing: when
\* NewMessage has returned and its title goroutine has ended, the session's
\* counters are the sums over the responses of the completed iterations.
C22_UsageAddedOnce ==
    \A r \in 1..MaxSends :
        (aruns[r].pc = "done" /\ tjobs[r].pc = "none") =>
            /\ sessions[aruns[r].session].PromptTokens = aruns[r].used.InputTokens
            /\ sessions[aruns[r].session].CompletionTokens = aruns[r].used.OutputTokens

\* the cost of the input and output tokens alone, in the unit of Cost
CostOfInputAndOutput(usage) ==
    CostPer1MIn * usage.InputTokens + CostPer1MOut * usage.OutputTokens

\* C23: the cost of the session that a completed iteration saves is the cost
\* of the session it got plus (input price x input tokens + output price x
\* output tokens) / 1e6, for every usage the provider can report.
C23_CostOfInputAndOutput ==
    [][\A r \in 1..MaxSends, usage \in Usages :
          GetSession(r, usage) =>
             aruns'[r].sess.Cost =
                sessions[aruns[r].session].Cost + CostOfInputAndOutput(usage)]_vars

----------------------------------------------------------------------------
(* A call of the provider client: anthropicClient.send and shouldRetry *)

\* the retries allowed; the constant is declared outside the sources
maxRetries == 8

\* what a.client.Messages.New fails with: status 0 is an error that is not an
\* API error (the network, the context), the others are API errors
Statuses == {0, 429, 500, 529}

\* the first Retry-After value of the failing response: none, a number of
\* seconds, or an HTTP date
NoHeader == [kind |-> "none", n |-> 0]
Seconds(n) == [kind |-> "seconds", n |-> n]
HTTPDate == [kind |-> "date", n |-> 0]
RetryAfterValues == {NoHeader, HTTPDate} \cup {Seconds(n) : n \in 0..MaxRetryAfter}

\* fmt.Sscanf(value, "%d", &retryMs): the parse succeeds on a number only
Sscanf(value) == [ok |-> value.kind = "seconds", n |-> value.n]

RECURSIVE Shl(_)
\* 1 << n
Shl(n) == IF n = 0 THEN 1 ELSE 2 * Shl(n - 1)

\* the back-off with the exponent taken one too high
backoffMsFromAttempts(attempts) == 2000 * Shl(attempts)

\* line 756: backoffMs := 2000 * (1 << (attempts - 1))
backoffMs(attempts) == 2000 * Shl(attempts - 1)

\* line 757: jitterMs := int(float64(backoffMs) * 0.2); the product of a
\* multiple of 2000 below 2^53 by 0.2 rounds to the exact fifth
jitterMs(backoff) == (backoff * 2) \div 10

\* the wait when the header is not looked at
retryMsNoHeader(attempts, value) == backoffMs(attempts) + jitterMs(backoffMs(attempts))

\* lines 753-763: the wait in ms: the back-off plus its jitter, replaced by
\* the Retry-After seconds when the header holds a number
retryMs(attempts, value) ==
    IF value # NoHeader /\ Sscanf(value).ok
    THEN Sscanf(value).n * 1000
    ELSE backoffMs(attempts) + jitterMs(backoffMs(attempts))

\* shouldRetry with the limit reached one attempt early
shouldRetryEarly(attempts, status, value) ==
    IF status = 0 THEN [retry |-> FALSE, after |-> 0, err |-> "error"]
    ELSE IF status # 429 /\ status # 529
    THEN [retry |-> FALSE, after |-> 0, err |-> "error"]
    ELSE IF attempts >= maxRetries
    THEN [retry |-> FALSE, after |-> 0, err |-> "maximum retry attempts reached"]
    ELSE [retry |-> TRUE, after |-> retryMs(attempts, value), err |-> "none"]

\* anthropicClient.shouldRetry, lines 739-765; err "error" is the error given
shouldRetry(attempts, status, value) ==
    IF status = 0 THEN [retry |-> FALSE, after |-> 0, err |-> "error"]
    ELSE IF status # 429 /\ status # 529
    THEN [retry |-> FALSE, after |-> 0, err |-> "error"]
    ELSE IF attempts > maxRetries
    THEN [retry |-> FALSE, after |-> 0, err |-> "maximum retry attempts reached"]
    ELSE [retry |-> TRUE, after |-> retryMs(attempts, value), err |-> "none"]

\* lines 588-596: send is called
SendStart ==
    /\ call.pc = "idle"
    /\ call' = [NoCall EXCEPT !.pc = "calling"]
    /\ UNCHANGED <<toolVars, messages, aruns, storeVars>>

\* lines 597-601 and 620-632: an attempt that succeeds
AttemptOk ==
    /\ call.pc = "calling"
    /\ call' = [call EXCEPT !.pc = "done", !.attempts = @ + 1, !.status = 0,
                            !.retryAfter = NoHeader, !.after = 0, !.err = "none"]
    /\ UNCHANGED <<toolVars, messages, aruns, storeVars>>

\* lines 597-618: an attempt that fails; shouldRetry decides
AttemptFails(status, value) ==
    /\ call.pc = "calling"
    /\ status = 0 => value = NoHeader
    /\ LET d == shouldRetry(call.attempts + 1, status, value) IN
       call' = [pc |-> IF d.retry THEN "waiting" ELSE "done",
                attempts |-> call.attempts + 1,
                status |-> status,
                retryAfter |-> value,
                after |-> d.after,
                err |-> d.err]
    /\ UNCHANGED <<toolVars, messages, aruns, storeVars>>

\* lines 612-614: the timer of the wait fires and the loop goes round
RetryNow ==
    /\ call.pc = "waiting"
    /\ call' = [call EXCEPT !.pc = "calling"]
    /\ UNCHANGED <<toolVars, messages, aruns, storeVars>>

\* lines 610-611: the context is done during the wait
ContextDone ==
    /\ call.pc = "waiting"
    /\ call' = [call EXCEPT !.pc = "done", !.err = "context"]
    /\ UNCHANGED <<toolVars, messages, aruns, storeVars>>

RetryNext ==
    \/ SendStart
    \/ AttemptOk
    \/ \E status \in Statuses, value \in RetryAfterValues : AttemptFails(status, value)
    \/ RetryNow
    \/ ContextDone

RetrySpec == AgentInit /\ [][RetryNext]_vars

\* an attempt has just failed
Failed == call.pc \in {"waiting", "done"} /\ call.err \notin {"context"} /\
          (call.pc = "done" => call.err # "none")

\* C14: a failed attempt is retried exactly when the error is an API error
\* with status 429 or 529 and fewer than 8 retries were made before; any
\* other error ends the call with that error, a rate-limit failure after the
\* 8th retry ends it with 'maximum retry attempts reached', and no call makes
\* more than 9 attempts.
C14_RetryPolicy ==
    /\ call.attempts <= 9
    /\ Failed =>
         /\ call.pc = "waiting" <=>
               (call.status \in {429, 529} /\ call.attempts - 1 < 8)
         /\ (call.status \notin {429, 529}) => (call.pc = "done" /\ call.err = "error")
         /\ (call.status \in {429, 529} /\ call.attempts - 1 >= 8) =>
               (call.pc = "done" /\ call.err = "maximum retry attempts reached")

\* the 9th attempt failed with a rate limit and the call gave up
C14_Witness ==
    /\ call.pc = "done"
    /\ call.attempts = 9
    /\ call.status = 429
    /\ call.err = "maximum retry attempts reached"

\* C15: without a Retry-After header the wait before the k-th retry, the one
\* that follows the k-th failed attempt, is at least 2000 * 2^(k-1) ms and at
\* most 2000 * 2^(k-1) * 1.2 ms.
C15_BackoffBounds ==
    (call.pc = "waiting" /\ call.retryAfter = NoHeader) =>
        /\ call.after >= 2000 * (2 ^ (call.attempts - 1))
        /\ 10 * call.after <= 12 * 2000 * (2 ^ (call.attempts - 1))

\* the call waits for its 8th retry with no header
C15_Witness ==
    /\ call.pc = "waiting"
    /\ call.retryAfter = NoHeader
    /\ call.attempts = 8
    /\ call.after = 307200

\* C16: with a Retry-After header of N seconds the wait before the next
\* attempt is N seconds, whatever the attempt.
C16_RetryAfterIsTheWait ==
    (call.pc = "waiting" /\ call.retryAfter.kind = "seconds") =>
        call.after = call.retryAfter.n * 1000

\* the call waits 3 s for its first retry, where the back-off is 2.4 s
C16_Witness ==
    /\ call.pc = "waiting"
    /\ call.retryAfter = Seconds(3)
    /\ call.attempts = 1
    /\ call.after = 3000

----------------------------------------------------------------------------
(* The ls tool: lsTool.Run, listDirectory, createFileTree and printTree.    *)
(* A name is a sequence of characters, a path a sequence of names.  The     *)
(* directory to list is given as filepath.Walk reports it: its entries in   *)
(* lexical order, the directory itself (the empty path) first.              *)

MaxLSFiles == 1000

\* the names of the small trees: a hidden name, __pycache__, two plain names
Hidden == <<".", "a">>
PyCache == <<"__pycache__">>
NameA == <<"a">>
NameB == <<"b">>

\* the names in the order of their bytes
NameOrder == <<Hidden, PyCache, NameA, NameB>>

NameRank(name) == CHOOSE i \in DOMAIN NameOrder : NameOrder[i] = name

RECURSIVE PathBefore(_, _)
\* the order in which Walk reports two paths: a directory before what is in
\* it, the entries of a directory by name
PathBefore(p, q) ==
    IF p = <<>> THEN TRUE
    ELSE IF q = <<>> THEN FALSE
    ELSE IF Head(p) = Head(q) THEN PathBefore(Tail(p), Tail(q))
    ELSE NameRank(Head(p)) < NameRank(Head(q))

\* the paths a small tree may hold, relative to the listed directory
SmallPaths ==
    {<<NameA>>, <<NameB>>, <<Hidden>>, <<PyCache>>, <<NameA, NameA>>,
     <<NameA, NameB>>, <<Hidden, NameA>>, <<NameA, NameA, NameB>>}

RootEntry == [path |-> <<>>, isDir |-> TRUE]

Parent(path) == SubSeq(path, 1, Len(path) - 1)

\* the small trees: every entry lies in a directory of the tree
SmallTrees ==
    {t \in SUBSET [path : SmallPaths, isDir : BOOLEAN] :
        /\ \A e, f \in t : e.path = f.path => e = f
        /\ \A e \in t : Len(e.path) > 1 => [path |-> Parent(e.path), isDir |-> TRUE] \in t}

RECURSIVE WalkOrder(_)
\* the entries of a tree in the order Walk reports them
WalkOrder(t) ==
    IF t = {} THEN <<>>
    ELSE LET first == CHOOSE e \in t : \A f \in t : PathBefore(e.path, f.path)
         IN <<first>> \o WalkOrder(t \ {first})

\* the four digits of i, as a name
Digits(i) ==
    <<ToString(i \div 1000), ToString((i \div 100) % 10),
      ToString((i \div 10) % 10), ToString(i % 10)>>

\* a directory that holds n plain files and nothing else
Flat(n) == <<RootEntry>> \o [i \in 1..n |-> [path |-> <<Digits(i)>>, isDir |-> FALSE]]

\* the calls of ls: the searched path either does not exist or is a
\* directory; prefix is the searched path relative to the working directory
\* and ignore the names given as ignore patterns
LsInputs ==
    {[exists |-> FALSE, prefix |-> <<>>, ignore |-> {}, entries |-> <<>>]}
    \cup {[exists |-> TRUE, prefix |-> p, ignore |-> g,
           entries |-> <<RootEntry>> \o WalkOrder(t)] :
             p \in {<<>>, <<NameB>>}, g \in {{}, {NameB}}, t \in SmallTrees}
    \cup {[exists |-> TRUE, prefix |-> <<>>, ignore |-> {}, entries |-> Flat(n)] :
             n \in {MaxLSFiles - 1, MaxLSFiles, MaxLSFiles + 1}}

\* strings.HasPrefix
HasPrefix(str, prefix) ==
    Len(str) >= Len(prefix) /\ SubSeq(str, 1, Len(prefix)) = prefix

\* strings.Contains(path, "__pycache__"): some name of the path holds it
\* (the path of the working directory is taken to hold none)
ContainsPyCache(path) ==
    \E i \in DOMAIN path : \E k \in DOMAIN path[i] : path[i][k] = "__pycache__"

\* filepath.Base
Base(path) == path[Len(path)]

\* shouldSkip, lines 135-157.  The listed directory itself is taken to have a
\* name that is not hidden.  An ignore pattern is a name without wildcard,
\* which filepath.Match matches against the same name only.
shouldSkip(path, ignorePatterns) ==
    /\ path # <<>>
    /\ \/ Base(path) # <<".">> /\ HasPrefix(Base(path), <<".">>)
       \/ ContainsPyCache(path)
       \/ \E pattern \in ignorePatterns : pattern = Base(path)

\* a path as a string: its names, and whether a separator ends it
PathString(parts, slash) == [parts |-> parts, slash |-> slash]

\* filepath.Rel(workingDir, path): the path from the working directory,
\* cleaned, so without the separator at its end
Rel(prefix, p) == PathString(prefix \o p.parts, FALSE)

\* the walk has reported nothing yet
WalkStart == [results |-> <<>>, truncated |-> FALSE, skipAll |-> FALSE, skipDirs |-> {}]

\* Walk does not report what lies in a directory for which the function
\* returned SkipDir
InSkippedDir(w, path) ==
    \E k \in 0..(Len(path) - 1) : SubSeq(path, 1, k) \in w.skipDirs

\* listDirectory, lines 96-126: the function Walk calls for the entry e
walkFunc(w, e, prefix, ignorePatterns, limit) ==
    IF w.skipAll \/ InSkippedDir(w, e.path) THEN w
    ELSE IF shouldSkip(e.path, ignorePatterns)
    THEN IF e.isDir THEN [w EXCEPT !.skipDirs = @ \cup {e.path}] ELSE w
    ELSE LET results == IF e.path # <<>>
                        THEN Append(w.results, Rel(prefix, PathString(e.path, e.isDir)))
                        ELSE w.results
         IN IF Len(results) >= limit
            THEN [w EXCEPT !.results = results, !.truncated = TRUE, !.skipAll = TRUE]
            ELSE [w EXCEPT !.results = results]

RECURSIVE Walk(_, _, _, _, _, _, _)
\* filepath.Walk over the entries lo..hi, one after the other.  The range is
\* halved, and the first half is evaluated before the second is entered, to
\* keep the evaluation shallow.
Walk(w, entries, lo, hi, prefix, ignorePatterns, limit) ==
    IF lo > hi THEN w
    ELSE IF lo = hi THEN walkFunc(w, entries[lo], prefix, ignorePatterns, limit)
    ELSE LET half == Walk(w, entries, lo, (lo + hi) \div 2, prefix, ignorePatterns, limit)
         IN IF half.skipAll \in BOOLEAN
            THEN Walk(half, entries, (lo + hi) \div 2 + 1, hi, prefix,
                      ignorePatterns, limit)
            ELSE half

\* listDirectory, lines 92-133
listDirectory(entries, prefix, ignorePatterns, limit) ==
    Walk(WalkStart, entries, 1, Len(entries), prefix, ignorePatterns, limit)

\* strings.Split(path, separator): a separator at the end leaves an empty
\* last part
Split(p) == p.parts \o (IF p.slash THEN << <<>> >> ELSE <<>>)

\* TreeNode.  Children is nil in a file node and a slice in a directory node
TreeNode(name, path, isDir) ==
    [Name |-> name, Path |-> path, Type |-> IF isDir THEN "directory" ELSE "file",
     ChildrenNil |-> ~isDir, Children |-> <<>>]

RECURSIVE LevelAt(_, _)
\* the slice currentLevel points to; level holds the index of the node taken
\* at each level on the way down
LevelAt(nodes, level) ==
    IF level = <<>> THEN nodes
    ELSE LevelAt(nodes[Head(level)].Children, Tail(level))

RECURSIVE AppendAt(_, _, _)
\* *currentLevel = append(*currentLevel, newNode)
AppendAt(nodes, level, node) ==
    IF level = <<>> THEN Append(nodes, node)
    ELSE [nodes EXCEPT ![Head(level)].Children = AppendAt(@, Tail(level), node)]

\* createFileTree, lines 167-210: the body of the loop over the parts of a
\* path, for part i.  b holds root, currentLevel and currentPath.
addPart(b, p, i) ==
    LET parts == Split(p)
        part == parts[i]
        currentPath == b.currentPath \o <<part>>
        isLastPart == i = Len(parts)
        isDir == ~isLastPart \/ p.slash
        siblings == LevelAt(b.root, b.level)
        found == {j \in DOMAIN siblings : siblings[j].Name = part}
    IN IF part = <<>> THEN b
       ELSE IF found # {}
       THEN [b EXCEPT !.currentPath = currentPath,
                      !.level = IF ~siblings[Min(found)].ChildrenNil
                                THEN Append(@, Min(found)) ELSE @]
       ELSE [root |-> AppendAt(b.root, b.level, TreeNode(part, currentPath, isDir)),
             currentPath |-> currentPath,
             level |-> IF isDir THEN Append(b.level, Len(siblings) + 1) ELSE b.level]

RECURSIVE addParts(_, _, _)
\* the loop over the parts of a path, from part i on
addParts(b, p, i) ==
    IF i > Len(Split(p)) THEN b
    ELSE addParts(addPart(b, p, i), p, i + 1)

\* createFileTree, lines 162-213: the body of the loop over the paths
addPath(root, p) ==
    addParts([root |-> root, level |-> <<>>, currentPath |-> <<>>], p, 1).root

RECURSIVE addPaths(_, _, _, _)
\* the paths lo..hi added one after the other (halved like Walk)
addPaths(root, paths, lo, hi) ==
    IF lo > hi THEN root
    ELSE IF lo = hi THEN addPath(root, paths[lo])
    ELSE LET half == addPaths(root, paths, lo, (lo + hi) \div 2)
         IN IF Len(half) >= 0
            THEN addPaths(half, paths, (lo + hi) \div 2 + 1, hi)
            ELSE half

\* createFileTree, lines 159-216
createFileTree(sortedPaths) == addPaths(<<>>, sortedPaths, 1, Len(sortedPaths))

RECURSIVE printTreeRecursive(_, _, _, _)
\* printTreeRecursive, lines 228-242, for the nodes lo..hi of a level: a line
\* per node, then the lines of its children.  A line is the number of
\* indentations before its "- ", the name and whether a separator follows
\* it; path tells which node the line is of and is not printed.
printTreeRecursive(tree, lo, hi, indent) ==
    IF lo > hi THEN <<>>
    ELSE IF lo = hi
    THEN <<[indent |-> indent, name |-> tree[lo].Name,
            slash |-> tree[lo].Type = "directory", path |-> tree[lo].Path]>>
         \o (IF tree[lo].Type = "directory" /\ Len(tree[lo].Children) > 0
             THEN printTreeRecursive(tree[lo].Children, 1, Len(tree[lo].Children),
                                     indent + 1)
             ELSE <<>>)
    ELSE printTreeRecursive(tree, lo, (lo + hi) \div 2, indent)
         \o printTreeRecursive(tree, (lo + hi) \div 2 + 1, hi, indent)

\* printTree, lines 218-226: the line of the root path, then the tree
printTree(tree, rootPath) ==
    [rootPath |-> rootPath, lines |-> printTreeRecursive(tree, 1, Len(tree), 1)]

\* lsTool.Run, lines 55-90: an error, or the notice of truncation and the
\* printed tree
lsRun(in) ==
    IF ~in.exists
    THEN [err |-> "path does not exist", notice |-> FALSE, rootPath |-> in.prefix,
          lines |-> <<>>]
    ELSE LET listed == listDirectory(in.entries, in.prefix, in.ignore, MaxLSFiles)
             output == printTree(createFileTree(listed.results), in.prefix)
         IN [err |-> "none", notice |-> listed.truncated,
             rootPath |-> output.rootPath, lines |-> output.lines]

\* all variables but ls
notLsVars == <<fs, fileRecords, now, truns, out, snapshots, messages, aruns,
               storeVars, clientVars, sg, files, sidebar, edits, perm, req,
                strm, grant, mview, appm>>

\* the agent calls ls
LsCall(in) ==
    /\ ls.pc = "none"
    /\ ls' = [pc |-> "called", in |-> in]
    /\ UNCHANGED notLsVars

\* lsTool.Run returns
LsRun ==
    /\ ls.pc = "called"
    /\ ls' = [pc |-> "done", in |-> ls.in, output |-> lsRun(ls.in)]
    /\ UNCHANGED notLsVars

LsNext ==
    \/ \E in \in LsInputs : LsCall(in)
    \/ LsRun

LsSpec == AgentInit /\ [][LsNext]_vars

----------------------------------------------------------------------------
(* Properties of the ls tool *)

\* the entries of the listed directory that are neither skipped nor in a
\* directory that is skipped
Listable(in) ==
    {i \in DOMAIN in.entries :
        /\ in.entries[i].path # <<>>
        /\ \A k \in 1..Len(in.entries[i].path) :
              ~shouldSkip(SubSeq(in.entries[i].path, 1, k), in.ignore)}

\* C24: ls never lists more than 1000 entries, and its output carries the
\* notice of truncation exactly when the listed directory holds more than
\* 1000 listable entries.
C24_CapAndNotice ==
    (ls.pc = "done" /\ ls.output.err = "none") =>
        /\ Len(ls.output.lines) <= MaxLSFiles
        /\ ls.output.notice <=> Cardinality(Listable(ls.in)) > MaxLSFiles

\* TRUE when the path, taken from the working directory, is a directory
IsDirectory(in, path) ==
    \/ Len(path) <= Len(in.prefix)
    \/ \E i \in DOMAIN in.entries :
          in.prefix \o in.entries[i].path = path /\ in.entries[i].isDir

\* C25: the output of ls is a tree: the line of a directory has the trailing
\* separator, and the line of an entry is nested one level below the line of
\* its parent directory, which comes before it with nothing less nested in
\* between.
C25_OutputIsATree ==
    (ls.pc = "done" /\ ls.output.err = "none") =>
        \A k \in DOMAIN ls.output.lines :
            LET lines == ls.output.lines
            IN /\ lines[k].slash <=> IsDirectory(ls.in, lines[k].path)
               /\ lines[k].indent = Len(lines[k].path)
               /\ Len(lines[k].path) > 1 =>
                     \E j \in 1..(k - 1) :
                        /\ lines[j].path = Parent(lines[k].path)
                        /\ lines[j].indent = lines[k].indent - 1
                        /\ \A i \in (j + 1)..(k - 1) : lines[i].indent >= lines[k].indent

----------------------------------------------------------------------------
(* The sourcegraph tool: sourcegraphTool.Run and formatSourcegraphResults.  *)
(* A file's content is modelled by the number of its lines, and a line by   *)
(* its index in strings.Split(fileContent, "\n").                           *)

maxResults == 10
contextBefore == 10
contextAfter == 10

\* the greatest number of results in a response of the model
MaxResponse == 12

\* the number of lines of the long file of the model
MaxFileLines == 25

\* a result that is no file match
RepositoryMatch ==
    [typename |-> "Repository", hasFile |-> FALSE, lines |-> 0, lineMatches |-> <<>>]

\* a file match: the lines of file.content (0 when the content is empty or
\* absent) and the lineNumber of each of its line matches
FileMatch(hasFile, lines, lineMatches) ==
    [typename |-> "FileMatch", hasFile |-> hasFile, lines |-> lines,
     lineMatches |-> lineMatches]

\* the results the responses of the model are made of; a line number is not
\* negative
ResultKinds ==
    {RepositoryMatch, FileMatch(FALSE, 0, <<>>), FileMatch(TRUE, 0, <<3>>),
     FileMatch(TRUE, 5, <<3>>)}
    \cup {FileMatch(TRUE, MaxFileLines, <<n>>) :
             n \in {0, 1, contextBefore + 2, MaxFileLines - 1, MaxFileLines + 5}}
    \cup {FileMatch(TRUE, MaxFileLines, <<1, MaxFileLines>>)}

\* the responses: GraphQL errors, a response without the data field, or n
\* results, the first of one kind and the others of another
Responses ==
    {[shape |-> "errors", results |-> <<>>], [shape |-> "invalid", results |-> <<>>]}
    \cup {[shape |-> "data",
           results |-> [i \in 1..n |-> IF i = 1 THEN first ELSE other]] :
             n \in 0..MaxResponse, first \in ResultKinds, other \in ResultKinds}

\* the values of the count parameter; 0 is what an absent count decodes to
Counts == {-1, 0, 5, 10, 20, 25}

\* lines 169-174: the count the call goes on with
normalCount(count) ==
    IF count <= 0 THEN 10
    ELSE IF count > 20 THEN 20
    ELSE count

\* the indices from..(to - 1), in order
Indices(from, to) == [k \in 1..Max({0, to - from}) |-> from + k - 1]

\* lines 366-374: the loop over the lines before the match; the indices j
\* for which lines[j] is written
linesBefore(lineNumber, len) ==
    LET startLine == Max({1, lineNumber - contextBefore})
    IN SelectSeq(Indices(startLine - 1, Min({lineNumber - 1, len})),
                 LAMBDA j : j >= 0)

\* lines 379-387: the loop over the lines after the match
linesAfter(lineNumber, len) ==
    LET endLine == lineNumber + contextAfter
    IN Indices(lineNumber, Min({endLine, len}))

\* lines 351-396: what is written for a line match: the indices of the lines
\* written before and after the match (none without file content)
lineMatchBlock(lineNumber, len) ==
    IF len # 0
    THEN [lineNumber |-> lineNumber, len |-> len,
          before |-> linesBefore(lineNumber, len),
          after |-> linesAfter(lineNumber, len)]
    ELSE [lineNumber |-> lineNumber, len |-> len, before |-> <<>>, after |-> <<>>]

\* every result of the response kept
allResults(results) == results

\* lines 310-314: results = results[:maxResults]
firstResults(results) ==
    IF Len(results) > maxResults THEN SubSeq(results, 1, maxResults) ELSE results

\* lines 317-337: a result that is written
isWritten(res) == res.typename = "FileMatch" /\ res.hasFile

\* lines 317-398: the "## Result i" sections written, each with the blocks of
\* its line matches
resultSections(results) ==
    LET section(i) ==
           [number |-> i,
            blocks |-> [k \in DOMAIN results[i].lineMatches |->
                           lineMatchBlock(results[i].lineMatches[k], results[i].lines)]]
    IN [k \in DOMAIN SelectSeq([i \in DOMAIN results |-> i],
                               LAMBDA i : isWritten(results[i])) |->
           section(SelectSeq([i \in DOMAIN results |-> i],
                             LAMBDA i : isWritten(results[i]))[k])]

\* formatSourcegraphResults, lines 257-401
formatSourcegraphResults(result) ==
    CASE result.shape = "errors" -> [err |-> "none", title |-> "api error", sections |-> <<>>]
      [] result.shape = "invalid" ->
           [err |-> "invalid response format", title |-> "none", sections |-> <<>>]
      [] OTHER ->
           [err |-> "none", title |-> "results",
            sections |-> resultSections(firstResults(result.results))]

\* sourcegraphTool.Run, lines 159-255, for a query that is not empty and a
\* request answered with status 200: the count after lines 169-174 and the
\* formatted response
sourcegraphRun(in) ==
    [count |-> normalCount(in.count),
     formatted |-> formatSourcegraphResults(in.response)]

\* all variables but sg
notSgVars == <<fs, fileRecords, now, truns, out, snapshots, messages, aruns,
               storeVars, clientVars, ls, files, sidebar, edits, perm, req,
                strm, grant, mview, appm>>

\* the agent calls sourcegraph and the endpoint answers
SgCall(count, response) ==
    /\ sg.pc = "none"
    /\ sg' = [pc |-> "called", in |-> [count |-> count, response |-> response]]
    /\ UNCHANGED notSgVars

\* sourcegraphTool.Run returns
SgRun ==
    /\ sg.pc = "called"
    /\ sg' = [pc |-> "done", in |-> sg.in, output |-> sourcegraphRun(sg.in)]
    /\ UNCHANGED notSgVars

SgNext ==
    \/ \E count \in Counts, response \in Responses : SgCall(count, response)
    \/ SgRun

SgSpec == AgentInit /\ [][SgNext]_vars

----------------------------------------------------------------------------
(* Properties of the sourcegraph tool *)

\* the blocks of all sections of the output
Blocks ==
    UNION {{sg.output.formatted.sections[s].blocks[k] :
              k \in DOMAIN sg.output.formatted.sections[s].blocks} :
           s \in DOMAIN sg.output.formatted.sections}

\* C26: the formatted result holds at most 10 file matches and, for each line
\* match, at most 10 lines before and at most 10 lines after the matching
\* line, each of them a line of the file.
C26_ResultAndContextCaps ==
    sg.pc = "done" =>
        /\ Len(sg.output.formatted.sections) <= 10
        /\ \A b \in Blocks :
              /\ Len(b.before) <= 10
              /\ Len(b.after) <= 10
              /\ \A k \in DOMAIN b.before :
                    b.before[k] \in 0..(b.len - 1) /\ b.before[k] < b.lineNumber - 1
              /\ \A k \in DOMAIN b.after :
                    b.after[k] \in 0..(b.len - 1) /\ b.after[k] >= b.lineNumber

C26_Witness ==
    /\ sg.pc = "done"
    /\ Len(sg.in.response.results) > 10
    /\ Len(sg.output.formatted.sections) = 10
    /\ \E b \in Blocks : Len(b.before) = 10 /\ Len(b.after) = 10
    /\ \E b \in Blocks : b.lineNumber > b.len /\ b.after = <<>>

\* C27: the tool returns at most count results, where count is 10 when the
\* parameter is absent or not positive and 20 when it is larger than 20.
C27_AtMostCountResults ==
    sg.pc = "done" =>
        /\ sg.output.count = (IF sg.in.count <= 0 THEN 10
                              ELSE IF sg.in.count > 20 THEN 20 ELSE sg.in.count)
        /\ Len(sg.output.formatted.sections) <= sg.output.count

----------------------------------------------------------------------------
(* The sidebar of the chat page: sidebarCmp and the file history it shows.  *)
(* The history service is not part of the sources; it is modelled after its *)
(* description: CreateVersion inserts the "initial" version of a path of a  *)
(* session or appends its next version, and every file it stores is         *)
(* published to the channels subscribed at that moment.                     *)

\* the greatest number of versions of a path after its initial version
MaxVersions == 2

\* the contents of the stored versions
FileContents == {<<"a">>, <<"b">>}

\* the one path of the model, and what the sidebar shows it as
SidebarPaths == {"d/g"}

InitialVersion == "initial"

\* the version stored at position k of the versions of a path
VersionName(k) == IF k = 1 THEN InitialVersion ELSE "v" \o ToString(k - 1)

\* history.File; a file that was not found has the empty ID
File(s, p, k, content) ==
    [ID |-> "file", SessionID |-> s, Path |-> p, Version |-> VersionName(k),
     Content |-> content]

NotFound == [ID |-> "", SessionID |-> "", Path |-> "", Version |-> "", Content |-> <<>>]

\* history.ListBySession
ListBySession(store, s) ==
    UNION {{File(s, p, k, store[s][p][k]) : k \in DOMAIN store[s][p]} :
              p \in SidebarPaths}

\* history.ListLatestSessionFiles: the newest version of each path
ListLatestSessionFiles(store, s) ==
    {File(s, p, Len(store[s][p]), store[s][p][Len(store[s][p])]) :
        p \in {q \in SidebarPaths : store[s][q] # <<>>}}

\* no entry of modFiles for a path
NotListed == [listed |-> FALSE, additions |-> 0, removals |-> 0]

\* lines 428-445 and 472-488: the entry for a file whose content differs from
\* the initial version's
modFilesEntry(initialVersion, file) ==
    LET stats == GenerateGitDiffWithStats(initialVersion.Content, file.Content)
    IN IF stats.Additions > 0 \/ stats.Removals > 0
       THEN [listed |-> TRUE, additions |-> stats.Additions, removals |-> stats.Removals]
       ELSE NotListed

\* findInitialVersion, lines 492-507, and the loop of lines 411-418
findInitialVersion(store, s, path) ==
    IF \E v \in ListBySession(store, s) : v.Path = path /\ v.Version = InitialVersion
    THEN CHOOSE v \in ListBySession(store, s) :
            v.Path = path /\ v.Version = InitialVersion
    ELSE NotFound

\* loadModifiedFiles, lines 381-448: the map built anew from the store
loadModifiedFiles(store, s, modFiles) ==
    IF s = "" THEN modFiles
    ELSE [p \in SidebarPaths |->
            IF \E file \in ListLatestSessionFiles(store, s) :
                  /\ file.Path = p
                  /\ file.Version # InitialVersion
                  /\ findInitialVersion(store, s, p).ID # ""
                  /\ findInitialVersion(store, s, p).Content # file.Content
            THEN modFilesEntry(findInitialVersion(store, s, p),
                               CHOOSE file \in ListLatestSessionFiles(store, s) :
                                  file.Path = p)
            ELSE NotListed]

\* processFileChanges, lines 450-489
processFileChanges(store, s, modFiles, file) ==
    IF file.Version = InitialVersion THEN modFiles
    ELSE IF findInitialVersion(store, s, file.Path).ID = "" THEN modFiles
    ELSE IF findInitialVersion(store, s, file.Path).Content = file.Content
    THEN [modFiles EXCEPT ![file.Path] = NotListed]
    ELSE [modFiles EXCEPT ![file.Path] =
             modFilesEntry(findInitialVersion(store, s, file.Path), file)]

\* all variables but those of the sidebar
notSidebarVars == <<fs, fileRecords, now, truns, out, snapshots, messages, aruns,
                    storeVars, clientVars, ls, sg, edits, perm, req, strm,
                     grant, mview, appm>>

\* NewSidebarCmp and sidebarCmp.Init, lines 206-227 and 374-379: the sidebar is made for
\* a session (or for none), subscribes to the file events, loads the files
\* and starts the command that waits for an event on the channel
NewSidebarCmp(s) ==
    /\ sidebar.pc = "none"
    /\ sidebar' = [pc |-> "shown", session |-> s,
                   modFiles |-> loadModifiedFiles(files, s,
                                                  [p \in SidebarPaths |-> NotListed]),
                   waiting |-> TRUE, filesCh |-> <<>>]
    /\ UNCHANGED <<files, notSidebarVars>>

\* history.CreateVersion(session, path, content), which publishes the file it
\* stored; filesCh is the channel the waiting command reads
CreateVersion(s, p, content) ==
    /\ sidebar.pc = "shown"
    /\ Len(files[s][p]) <= MaxVersions
    /\ files' = [files EXCEPT ![s][p] = Append(@, content)]
    /\ sidebar' = [sidebar EXCEPT
                     !.filesCh = IF sidebar.waiting
                                 THEN Append(@, File(s, p, Len(files[s][p]) + 1, content))
                                 ELSE @]
    /\ UNCHANGED notSidebarVars

\* sidebarCmp.Update, lines 231-236: a session is selected
SessionSelected(s) ==
    /\ sidebar.pc = "shown"
    /\ sidebar' = IF s # sidebar.session
                  THEN [sidebar EXCEPT
                          !.session = s,
                          !.modFiles = loadModifiedFiles(files, s, sidebar.modFiles)]
                  ELSE sidebar
    /\ sidebar' # sidebar
    /\ UNCHANGED <<files, notSidebarVars>>

\* The waiting command returns the first event of its channel and
\* sidebarCmp.Update handles it, lines 243-257.  For an event of the selected
\* session the file is processed and a new command is returned, which
\* subscribes again and waits on the new channel: what the old channel still
\* holds is never read.  For an event of another session no command is
\* returned, and nothing waits for file events any more.
FileEvent ==
    /\ sidebar.pc = "shown"
    /\ sidebar.waiting
    /\ sidebar.filesCh # <<>>
    /\ sidebar' = IF Head(sidebar.filesCh).SessionID = sidebar.session
                  THEN [sidebar EXCEPT
                          !.modFiles = processFileChanges(files, sidebar.session, @,
                                                          Head(sidebar.filesCh)),
                          !.filesCh = <<>>]
                  ELSE [sidebar EXCEPT !.waiting = FALSE, !.filesCh = <<>>]
    /\ UNCHANGED <<files, notSidebarVars>>

SidebarNext ==
    \/ \E s \in Sessions \cup {""} : NewSidebarCmp(s)
    \/ \E s \in Sessions, p \in SidebarPaths, content \in FileContents :
          CreateVersion(s, p, content)
    \/ \E s \in Sessions : SessionSelected(s)
    \/ FileEvent

SidebarSpec == AgentInit /\ [][SidebarNext]_vars

----------------------------------------------------------------------------
(* Properties of the sidebar *)

\* what the sidebar should show for a path of the selected session: the diff
\* of the initial and the latest content, and nothing when they are equal
Shown(p) ==
    LET versions == files[sidebar.session][p]
    IN IF Len(versions) >= 2 /\ versions[1] # versions[Len(versions)]
       THEN [listed |-> TRUE,
             additions |->
                GenerateGitDiffWithStats(versions[1], versions[Len(versions)]).Additions,
             removals |->
                GenerateGitDiffWithStats(versions[1], versions[Len(versions)]).Removals]
       ELSE NotListed

\* C28: once the file events published so far are handled, the sidebar shows
\* for each path of the selected session the additions and removals of the
\* diff between the path's initial and latest content, and does not list a
\* path whose latest content equals its initial content.
C28_SidebarShowsDiffToInitial ==
    (sidebar.pc = "shown" /\ sidebar.session # "" /\ sidebar.filesCh = <<>>) =>
        \A p \in SidebarPaths : sidebar.modFiles[p] = Shown(p)

\* C38: for as long as the sidebar is shown a command of it waits for the
\* next file event, whatever events it has handled, those of other sessions
\* included: every later file event of the selected session is processed.
C38_SidebarKeepsConsuming ==
    sidebar.pc = "shown" => sidebar.waiting

----------------------------------------------------------------------------
(* Edit calls of one assistant message, run in parallel.                    *)
(* NewMessage starts one goroutine per tool call of the message and waits   *)
(* for all of them (part_004, lines 283-321); each goroutine calls Run of   *)
(* its tool.  An edit goroutine reads the file and computes the new content *)
(* before it blocks in permissions.Request, and writes that content after   *)
(* Request has returned (part_002, lines 338-405).                          *)

notEditsVars == <<truns, out, snapshots, messages, aruns, storeVars, clientVars,
                  ls, sg, files, sidebar, perm, req, strm, grant, mview,
                   appm>>

\* goroutine i calls editTool.Run, which runs up to permissions.Request and
\* blocks there, or returns an error before reaching it
EditCall(i, p, old, new) ==
    /\ edits[i].pc = "idle"
    /\ LET pre == editRun(fs, fileRecords, p, old, new, TRUE)
       IN /\ Len(pre.newContent) <= MaxLen
          /\ fs' = (IF pre.mkdir THEN MkdirAll(fs, Dir(p)) ELSE fs)
          /\ edits' = [edits EXCEPT ![i] =
                         IF pre.res = "ask"
                         THEN [pc |-> "waiting", tool |-> "edit", path |-> p,
                               mode |-> Mode("edit", old, new), pre |-> pre]
                         ELSE [pc |-> "done", tool |-> "edit", path |-> p,
                               mode |-> Mode("edit", old, new), pre |-> pre,
                               res |-> pre.res, found |-> <<>>]]
    /\ UNCHANGED <<fileRecords, now, notEditsVars>>

\* permissions.Request returns p to goroutine i, which runs to its end;
\* found is the content the file had when the goroutine wrote it
EditReturn(i, p) ==
    /\ edits[i].pc = "waiting"
    /\ LET w == edits[i]
           a == afterRequest(fs, fileRecords, w, p, now)
       IN /\ fs' = a.fs
          /\ fileRecords' = a.recs
          /\ edits' = [edits EXCEPT ![i] =
                         [pc |-> "done", tool |-> "edit", path |-> w.path,
                          mode |-> w.mode, pre |-> w.pre, res |-> a.res,
                          found |-> fs[w.path].content]]
    /\ UNCHANGED <<now, notEditsVars>>

\* wg.Wait returns: the tool calls of the next assistant message may start
EditsWaited ==
    /\ \A i \in 1..MaxCalls : edits[i].pc = "done"
    /\ edits' = [i \in 1..MaxCalls |-> Idle]
    /\ UNCHANGED <<fs, fileRecords, now, notEditsVars>>

EditsNext ==
    \/ \E i \in 1..MaxCalls, p \in Paths, old \in Args, new \in Args :
          EditCall(i, p, old, new)
    \/ \E i \in 1..MaxCalls, p \in BOOLEAN : EditReturn(i, p)
    \/ EditsWaited
    \/ \E p \in Paths : View(p)
    \/ Tick

EditsSpec == Init /\ [][EditsNext]_vars

----------------------------------------------------------------------------
(* Properties of the edits run in parallel *)

\* C29: an approved edit in replace mode writes content computed from the
\* version of the file that is on disk when it writes: of two approved edits
\* of the same file run in parallel, neither overwrites the replacement of
\* the other, and the final content holds both replacements.
C29_ParallelEditsBothApplied ==
    \A i \in 1..MaxCalls :
        (edits[i].pc = "done" /\ edits[i].mode = "replace" /\ edits[i].res = "ok")
        => edits[i].found = edits[i].pre.oldContent

----------------------------------------------------------------------------
(* Permission requests and the dialog of appModel.                          *)
(* A tool goroutine calls Request, which records the request as pending,    *)
(* publishes it and blocks until Grant, GrantPersistant or Deny is called   *)
(* for it.  appModel.Update (part_000, lines 144-159) shows a published     *)
(* request in its one dialog and passes the answer of the dialog on to the  *)
(* permission service.                                                      *)

\* the (tool, action, path) of a request
PermissionKeys == {"k1", "k2"}

PermissionAllow == "allow"
PermissionAllowForSession == "allow_session"
PermissionDeny == "deny"
PermissionActions == {PermissionAllow, PermissionAllowForSession, PermissionDeny}

notPermVars == <<fs, fileRecords, now, truns, out, snapshots, messages, aruns,
                 storeVars, clientVars, ls, sg, files, sidebar, edits, req,
                  strm, grant, mview, appm>>

\* permissions.Request of a tool goroutine: it returns at once for a key
\* allowed for the session; else the request becomes pending and its event
\* is published to the subscription of the UI
Request(key) ==
    /\ perm.made < MaxRequests
    /\ perm' = IF key \in perm.sessionPermissions
               THEN [perm EXCEPT !.made = perm.made + 1]
               ELSE [perm EXCEPT
                       !.made = perm.made + 1,
                       !.pendingRequests = perm.pendingRequests \cup
                                              {[id |-> perm.made + 1, key |-> key]},
                       !.events = Append(perm.events,
                                         [id |-> perm.made + 1, key |-> key])]
    /\ UNCHANGED notPermVars

\* appModel.Update, lines 145-148: the next permission request event; the
\* dialog is shown and holds the request of this event
UpdatePermissionRequest ==
    /\ perm.events # <<>>
    /\ perm' = [perm EXCEPT
                  !.events = Tail(perm.events),
                  !.delivered = perm.delivered \cup {Head(perm.events).id},
                  !.showPermissions = TRUE,
                  !.permissions = Head(perm.events)]
    /\ UNCHANGED notPermVars

\* Grant, GrantPersistant and Deny: the request leaves the pending map and
\* its caller is released; GrantPersistant adds its key to the allowed ones
Resolve(p, permission, action) ==
    [p EXCEPT
       !.pendingRequests = p.pendingRequests \ {permission},
       !.sessionPermissions =
           IF action = PermissionAllowForSession
           THEN p.sessionPermissions \cup {permission.key}
           ELSE p.sessionPermissions,
       !.resolved[permission.id] = p.resolved[permission.id] + 1]

\* the user answers the dialog shown, which sends a PermissionResponseMsg
\* with the request it holds; appModel.Update, lines 149-159, calls Grant,
\* GrantPersistant or Deny for that request and hides the dialog
UpdatePermissionResponse(action) ==
    /\ perm.showPermissions
    /\ perm' = [Resolve(perm, perm.permissions, action) EXCEPT
                  !.showPermissions = FALSE]
    /\ UNCHANGED notPermVars

PermNext ==
    \/ \E key \in PermissionKeys : Request(key)
    \/ UpdatePermissionRequest
    \/ \E action \in PermissionActions : UpdatePermissionResponse(action)

\* the event loop of the UI handles every event it is sent, and the user
\* answers every dialog that is shown
PermSpec ==
    /\ AgentInit
    /\ [][PermNext]_vars
    /\ WF_vars(UpdatePermissionRequest)
    /\ WF_vars(\E action \in PermissionActions : UpdatePermissionResponse(action))

----------------------------------------------------------------------------
(* Properties of the permission dialog *)

\* C30: every permission request whose event was delivered to the UI is in
\* the end resolved by exactly one call of Grant, GrantPersistant or Deny for
\* it, given that the user answers each dialog shown: no request is resolved
\* twice, and none stays pending forever.
C30_EveryRequestResolvedOnce ==
    /\ [](\A id \in 1..MaxRequests : perm.resolved[id] <= 1)
    /\ \A id \in 1..MaxRequests :
          (id \in perm.delivered) ~> (perm.resolved[id] = 1)

----------------------------------------------------------------------------
(* The request anthropicClient builds from a history (part_004, lines       *)
(* 452-586): convertMessages, convertTools and preparedMessages.            *)
(* A text is the sequence of its words; the empty sequence is the empty     *)
(* string.                                                                  *)

\* longest history handed to the client
MaxHistory == 3

Texts == {<<>>, <<"hi">>, <<"Think">>}

ToolCallIDs == {"c1", "c2"}

\* a tool call of an assistant message; valid tells whether its Input is the
\* JSON of an object
HistoryToolCalls == {<<>>} \cup {<<[ID |-> id, valid |-> v]>> : id \in ToolCallIDs, v \in BOOLEAN}

HistoryMessages ==
    {[Role |-> "user", Text |-> t, ToolCalls |-> <<>>, ToolResults |-> <<>>] :
        t \in Texts}
    \cup {[Role |-> "assistant", Text |-> t, ToolCalls |-> c, ToolResults |-> <<>>] :
            t \in {<<>>, <<"hi">>}, c \in HistoryToolCalls}
    \cup {[Role |-> "tool", Text |-> <<>>, ToolCalls |-> <<>>,
           ToolResults |-> <<[ToolCallID |-> id]>>] : id \in ToolCallIDs}

Histories == UNION {[1..n -> HistoryMessages] : n \in 1..MaxHistory}

\* anthropicOptions and providerClientOptions: shouldThink is "nil" or the
\* default predicate
ClientOptions ==
    [disableCache : BOOLEAN, shouldThink : {"nil", "default"},
     maxTokens : {5, 1024}, tools : {<<>>, <<"ls", "edit">>}]

\* strings.ToLower, on a word
ToLower(w) == IF w = "Think" THEN "think" ELSE w

\* DefaultShouldThinkFn, lines 807-809
DefaultShouldThinkFn(s) == \E i \in 1..Len(s) : ToLower(s[i]) = "think"

NoCacheControl == ""
CacheControlEphemeral == "ephemeral"

\* anthropic.NewTextBlock, with the cache hint when mark holds
TextBlock(text, mark) ==
    [type |-> "text", Text |-> text, ID |-> "",
     CacheControl |-> IF mark THEN CacheControlEphemeral ELSE NoCacheControl]

\* anthropic.ContentBlockParamOfRequestToolUseBlock
ToolUseBlock(id) ==
    [type |-> "tool_use", Text |-> <<>>, ID |-> id, CacheControl |-> NoCacheControl]

\* anthropic.NewToolResultBlock
ToolResultBlock(id) ==
    [type |-> "tool_result", Text |-> <<>>, ID |-> id, CacheControl |-> NoCacheControl]

\* lines 476-483: a tool call whose Input does not parse is left out
toolUseBlocks(toolCalls) ==
    IF toolCalls # <<>> /\ toolCalls[1].valid
    THEN <<ToolUseBlock(toolCalls[1].ID)>>
    ELSE <<>>

\* lines 493-498
toolResultBlocks(toolResults) ==
    [i \in 1..Len(toolResults) |-> ToolResultBlock(toolResults[i].ToolCallID)]

RECURSIVE convertFrom(_, _, _, _)
\* the loop of convertMessages from message i on, lines 454-502
convertFrom(msgs, i, cachedBlocks, disableCache) ==
    IF i > Len(msgs) THEN <<>>
    ELSE LET msg == msgs[i]
             mark == cachedBlocks < 2 /\ ~disableCache
         IN CASE msg.Role = "user" ->
                   <<[Role |-> "user", Content |-> <<TextBlock(msg.Text, mark)>>]>>
                   \o convertFrom(msgs, i + 1,
                                  IF mark THEN cachedBlocks + 1 ELSE cachedBlocks,
                                  disableCache)
              [] msg.Role = "assistant" ->
                   LET hasText == msg.Text # <<>>
                       blocks == (IF hasText THEN <<TextBlock(msg.Text, mark)>> ELSE <<>>)
                                 \o toolUseBlocks(msg.ToolCalls)
                   IN (IF blocks = <<>> THEN <<>>
                       ELSE <<[Role |-> "assistant", Content |-> blocks]>>)
                      \o convertFrom(msgs, i + 1,
                                     IF hasText /\ mark THEN cachedBlocks + 1
                                     ELSE cachedBlocks,
                                     disableCache)
              [] OTHER ->
                   <<[Role |-> "user", Content |-> toolResultBlocks(msg.ToolResults)]>>
                   \o convertFrom(msgs, i + 1, cachedBlocks, disableCache)

\* anthropicClient.convertMessages, lines 452-504
convertMessages(msgs, options) == convertFrom(msgs, 1, 0, options.disableCache)

\* anthropicClient.convertTools, lines 506-530: the last tool carries the
\* cache hint unless caching is disabled
convertTools(tools, options) ==
    [i \in 1..Len(tools) |->
        [Name |-> tools[i],
         CacheControl |-> IF i = Len(tools) /\ ~options.disableCache
                          THEN CacheControlEphemeral ELSE NoCacheControl]]

NoThinking == [Type |-> "", BudgetTokens |-> 0]

\* int64(float64(maxTokens) * 0.8)
BudgetTokens(maxTokens) == (maxTokens * 8) \div 10

\* lines 553-557: the text of the last text block of a message that is not empty
lastText(content) ==
    LET texts == {j \in 1..Len(content) :
                     content[j].type = "text" /\ content[j].Text # <<>>}
    IN IF texts = {} THEN <<>> ELSE content[Max(texts)].Text

\* anthropicClient.preparedMessages, lines 547-586; messages[len(messages)-1]
\* panics when there is no message
preparedMessages(anthropicMessages, tools, options) ==
    IF anthropicMessages = <<>>
    THEN [panic |-> TRUE, Temperature |-> 0, Thinking |-> NoThinking,
          MaxTokens |-> 0, Messages |-> <<>>, Tools |-> <<>>, System |-> <<>>]
    ELSE LET lastMessage == anthropicMessages[Len(anthropicMessages)]
             isUser == lastMessage.Role = "user"
             messageContent == IF isUser THEN lastText(lastMessage.Content) ELSE <<>>
             think == /\ isUser
                      /\ messageContent # <<>>
                      /\ options.shouldThink # "nil"
                      /\ DefaultShouldThinkFn(messageContent)
         IN [panic |-> FALSE,
             Temperature |-> IF think THEN 1 ELSE 0,
             Thinking |-> IF think
                          THEN [Type |-> "enabled",
                                BudgetTokens |-> BudgetTokens(options.maxTokens)]
                          ELSE NoThinking,
             MaxTokens |-> options.maxTokens,
             Messages |-> anthropicMessages,
             Tools |-> tools,
             System |-> <<[Text |-> "system", CacheControl |-> CacheControlEphemeral]>>]

notReqVars == <<fs, fileRecords, now, truns, out, snapshots, messages, aruns,
                storeVars, clientVars, ls, sg, files, sidebar, edits, perm,
                 strm, grant, mview, appm>>

\* send and stream, lines 589 and 636: the request is built from the history
\* and the tools
Prepare ==
    /\ req.pc = "none"
    /\ \E history \in Histories, options \in ClientOptions :
          req' = [pc |-> "built", messages |-> history, options |-> options,
                  params |-> preparedMessages(convertMessages(history, options),
                                              convertTools(options.tools, options),
                                              options)]
    /\ UNCHANGED notReqVars

\* the call that used the request has returned
Prepared ==
    /\ req.pc = "built"
    /\ req' = NoRequest
    /\ UNCHANGED notReqVars

RequestNext ==
    \/ Prepare
    \/ Prepared

RequestSpec == AgentInit /\ [][RequestNext]_vars

----------------------------------------------------------------------------
(* Properties of the request *)

Built == req.pc = "built" /\ ~req.params.panic

\* the positions <<message, block>> of the blocks of a type in a request
BlockPositions(params, type) ==
    UNION {{<<i, j>> : j \in {k \in 1..Len(params.Messages[i].Content) :
                                 params.Messages[i].Content[k].type = type}} :
           i \in 1..Len(params.Messages)}

BlockAt(params, pos) == params.Messages[pos[1]].Content[pos[2]]

\* pos comes before other in the request
Earlier(pos, other) ==
    pos[1] < other[1] \/ (pos[1] = other[1] /\ pos[2] < other[2])

\* C31: in every request built from a history, each tool_use block is
\* answered by a later tool_result block with the same id, and each
\* tool_result block refers to a tool_use block of an earlier assistant
\* message of the request.
C31_RequestWellFormed ==
    Built =>
        /\ \A u \in BlockPositions(req.params, "tool_use") :
              \E r \in BlockPositions(req.params, "tool_result") :
                  /\ r[1] > u[1]
                  /\ BlockAt(req.params, r).ID = BlockAt(req.params, u).ID
        /\ \A r \in BlockPositions(req.params, "tool_result") :
              \E u \in BlockPositions(req.params, "tool_use") :
                  /\ u[1] < r[1]
                  /\ req.params.Messages[u[1]].Role = "assistant"
                  /\ BlockAt(req.params, u).ID = BlockAt(req.params, r).ID

\* the text of the last user message of a history, and whether there is one
LastUserMessage(history) ==
    LET users == {i \in 1..Len(history) : history[i].Role = "user"}
    IN IF users = {} THEN [found |-> FALSE, Text |-> <<>>]
       ELSE [found |-> TRUE, Text |-> history[Max(users)].Text]

\* C34: the request enables thinking exactly when the client has a predicate
\* and the predicate holds of the text of the last user message of the
\* history; then the budget is 80% of max_tokens and the temperature 1,
\* otherwise thinking is off and the temperature 0.
C34_ThinkingOnLastUserMessage ==
    Built =>
        IF /\ req.options.shouldThink # "nil"
           /\ LastUserMessage(req.messages).found
           /\ DefaultShouldThinkFn(LastUserMessage(req.messages).Text)
        THEN /\ req.params.Thinking.Type = "enabled"
             /\ req.params.Thinking.BudgetTokens * 10 <= req.params.MaxTokens * 8
             /\ (req.params.Thinking.BudgetTokens + 1) * 10 > req.params.MaxTokens * 8
             /\ req.params.Temperature = 1
        ELSE /\ req.params.Thinking = NoThinking
             /\ req.params.Temperature = 0

\* the text blocks that carry the cache hint
Marked(params) ==
    {p \in BlockPositions(params, "text") :
        BlockAt(params, p).CacheControl = CacheControlEphemeral}

\* C35: with caching enabled at most two text blocks carry the ephemeral
\* cache hint, and they are the most recent text blocks: no text block
\* without the hint comes after one with it.
C35_TwoMostRecentMarked ==
    (Built /\ ~req.options.disableCache) =>
        /\ Cardinality(Marked(req.params)) <= 2
        /\ \A p \in Marked(req.params) :
              \A q \in BlockPositions(req.params, "text") \ Marked(req.params) :
                  Earlier(q, p)

\* C36: with caching disabled nothing in the request carries the ephemeral
\* cache hint: no block of a message, no tool definition, and not the system
\* prompt.
C36_NoHintWhenCacheDisabled ==
    (Built /\ req.options.disableCache) =>
        /\ \A i \in 1..Len(req.params.Messages) :
              \A j \in 1..Len(req.params.Messages[i].Content) :
                  req.params.Messages[i].Content[j].CacheControl = NoCacheControl
        /\ \A i \in 1..Len(req.params.Tools) :
              req.params.Tools[i].CacheControl = NoCacheControl
        /\ \A i \in 1..Len(req.params.System) :
              req.params.System[i].CacheControl = NoCacheControl

----------------------------------------------------------------------------
(* A call of anthropicClient.stream (part_004, lines 635-737): the          *)
(* goroutine that reads the provider's stream and sends on eventChan, an    *)
(* unbuffered channel, and the caller that receives from it.                *)

\* provider events read by one call
MaxEvents == 3

\* the events of the provider's stream, by what the loop does with them:
\* "bad" fails in Accumulate, "other" is an event no case sends anything for
\* (message_start, an empty delta)
StreamEvents ==
    {"content_block_start", "content_block_delta", "content_block_stop",
     "message_stop", "bad", "other"}

EventError == "error"
EventComplete == "complete"

\* lines 652-694: the event sent for a provider event, "" when none is sent
eventFor(e) ==
    CASE e = "bad" -> EventError
      [] e = "content_block_start" -> "content_start"
      [] e = "content_block_delta" -> "content_delta"
      [] e = "content_block_stop" -> "content_stop"
      [] e = "message_stop" -> EventComplete
      [] OTHER -> ""

notStreamVars == <<fs, fileRecords, now, truns, out, snapshots, messages, aruns,
                   storeVars, clientVars, ls, sg, files, sidebar, edits, perm, req,
                    grant, mview, appm>>

\* the goroutine blocks in a send of event e and goes on at cont afterwards
Sending(s, e, cont) == [s EXCEPT !.pc = "send", !.pending = e, !.cont = cont]

\* close(eventChan) and return
Closed(s) == [s EXCEPT !.pc = "exited", !.closed = s.closed + 1]

\* lines 635-645: stream makes the channel and starts the goroutine, which
\* enters its loop
StreamCall ==
    /\ strm.pc = "none"
    /\ strm' = [NoStream EXCEPT !.pc = "next", !.attempts = 1]
    /\ UNCHANGED notStreamVars

\* lines 652-694: anthropicStream.Next returns an event
StreamEvent(e) ==
    /\ strm.pc = "next"
    /\ ~strm.cancelled
    /\ strm.events < MaxEvents
    /\ strm' = IF eventFor(e) = ""
               THEN [strm EXCEPT !.events = strm.events + 1]
               ELSE [Sending(strm, eventFor(e), "next") EXCEPT
                        !.events = strm.events + 1]
    /\ UNCHANGED notStreamVars

\* lines 696-700: the provider's stream ends without an error
StreamEnds ==
    /\ strm.pc = "next"
    /\ ~strm.cancelled
    /\ strm' = Closed(strm)
    /\ UNCHANGED notStreamVars

\* lines 696-731: the provider's stream ends with an error; a cancelled
\* context ends it with an error that is not an API error (status 0)
StreamFails(status) ==
    /\ strm.pc = "next"
    /\ strm.cancelled => status = 0
    /\ LET d == shouldRetry(strm.attempts, status, NoHeader) IN
       strm' = IF d.err # "none" THEN Sending(strm, EventError, "close")
               ELSE IF d.retry THEN [strm EXCEPT !.pc = "waiting"]
               ELSE IF strm.cancelled THEN Sending(strm, EventError, "close")
               ELSE Closed(strm)
    /\ UNCHANGED notStreamVars

\* lines 710-716: the context is done during the wait before a retry
StreamContextDone ==
    /\ strm.pc = "waiting"
    /\ strm.cancelled
    /\ strm' = Sending(strm, EventError, "close")
    /\ UNCHANGED notStreamVars

\* lines 717-719 and 643-644: the wait is over and the next attempt starts
StreamRetry ==
    /\ strm.pc = "waiting"
    /\ strm' = [strm EXCEPT !.pc = "next", !.attempts = strm.attempts + 1]
    /\ UNCHANGED notStreamVars

\* the caller receives the event the goroutine is sending
Receive ==
    /\ strm.pc = "send"
    /\ strm.consumer = "receiving"
    /\ strm' = [strm EXCEPT
                  !.pc = strm.cont,
                  !.pending = "",
                  !.cont = "",
                  !.complete = strm.complete \/ strm.pending = EventComplete,
                  !.error = strm.error \/ strm.pending = EventError,
                  !.sentAfterClose = strm.sentAfterClose \/ strm.closed > 0]
    /\ UNCHANGED notStreamVars

\* lines 703-704, 715, 725: close(eventChan) after the last send
StreamClose ==
    /\ strm.pc = "close"
    /\ strm' = Closed(strm)
    /\ UNCHANGED notStreamVars

\* the caller's context is cancelled
StreamCancel ==
    /\ strm.pc \notin {"none", "exited"}
    /\ ~strm.cancelled
    /\ strm' = [strm EXCEPT !.cancelled = TRUE]
    /\ UNCHANGED notStreamVars

\* the caller stops receiving from the channel
StopReceiving ==
    /\ strm.pc \notin {"none", "exited"}
    /\ strm.consumer = "receiving"
    /\ strm' = [strm EXCEPT !.consumer = "stopped"]
    /\ UNCHANGED notStreamVars

\* the goroutine's own steps, which it takes whenever it can
StreamStep ==
    \/ StreamEnds
    \/ \E status \in Statuses : StreamFails(status)
    \/ StreamContextDone
    \/ StreamClose

StreamNext ==
    \/ StreamCall
    \/ \E e \in StreamEvents : StreamEvent(e)
    \/ StreamEnds
    \/ \E status \in Statuses : StreamFails(status)
    \/ StreamContextDone
    \/ StreamRetry
    \/ Receive
    \/ StreamClose
    \/ StreamCancel
    \/ StopReceiving

\* the goroutine runs, the provider's stream ends, and a caller that has not
\* stopped receiving takes what is sent
StreamSpec ==
    /\ AgentInit
    /\ [][StreamNext]_vars
    /\ WF_vars(StreamStep)
    /\ WF_vars(Receive)

----------------------------------------------------------------------------
(* Properties of stream *)

\* C32: the channel is closed at most once, exactly once when the goroutine
\* has returned, and nothing is sent after the close; when the channel is
\* closed and no Complete event was delivered, an Error event was delivered.
C32_ClosedOnceWithCompleteOrError ==
    /\ strm.pc # "none" =>
          /\ strm.closed <= 1
          /\ ~strm.sentAfterClose
          /\ strm.pc = "exited" <=> strm.closed = 1
    /\ (strm.pc = "exited" /\ ~strm.complete) => strm.error

\* C33: once the context of a stream call is cancelled, the goroutine in the
\* end closes the channel and returns.
C33_CancelledStreamCloses ==
    (strm.pc # "none" /\ strm.cancelled) ~> (strm.pc = "exited" /\ strm.closed = 1)

----------------------------------------------------------------------------
(* Persistent grants for edits.  The edit tool asks with the request built  *)
(* in createNewFile, deleteContent and replaceContent (part_002, lines      *)
(* 206-217, 295-305, 382-392); an answer "allow for session" makes          *)
(* appModel.Update call GrantPersistant with that request (part_000, lines  *)
(* 153-154), after which a matching request is granted without a prompt.    *)

\* the files edited: two in one directory and one in another
EditedFiles ==
    {[dir |-> "d", base |-> "g"], [dir |-> "d", base |-> "h"],
     [dir |-> "e", base |-> "g"]}

EditActions == {"create", "replace"}

EditToolName == "edit"

\* filepath.Dir of a file
DirOf(file) == file.dir

\* permission.CreatePermissionRequest as the edit tool fills it in: the
\* directory of the file, the tool and the action; the session of the run
\* (read at lines 191 and 369) is not part of it
CreatePermissionRequest(session, file, action) ==
    [Path |-> DirOf(file), ToolName |-> EditToolName, Action |-> action]

notGrantVars == <<fs, fileRecords, now, truns, out, snapshots, messages, aruns,
                  storeVars, clientVars, ls, sg, files, sidebar, edits, perm,
                  req, strm, mview, appm>>

\* an edit of file in session reaches permissions.Request: a request found
\* in the allow set is granted at once, any other is shown to the user
EditRequest(session, file, action) ==
    /\ grant.pc \in {"none", "returned"}
    /\ LET request == CreatePermissionRequest(session, file, action) IN
       grant' = [grant EXCEPT
                   !.pc = IF request \in grant.allowed THEN "returned" ELSE "asking",
                   !.session = session,
                   !.file = file,
                   !.request = request,
                   !.prompted = request \notin grant.allowed,
                   !.granted = request \in grant.allowed]
    /\ UNCHANGED notGrantVars

\* the user answers the dialog; appModel.Update, lines 149-159, calls Grant,
\* GrantPersistant or Deny with the request, and Request returns
GrantAnswer(action) ==
    /\ grant.pc = "asking"
    /\ grant' = [grant EXCEPT
                   !.pc = "returned",
                   !.granted = action # PermissionDeny,
                   !.allowed = IF action = PermissionAllowForSession
                               THEN grant.allowed \cup {grant.request}
                               ELSE grant.allowed,
                   !.persistent = IF action = PermissionAllowForSession
                                  THEN grant.persistent \cup
                                          {[session |-> grant.session,
                                            file |-> grant.file]}
                                  ELSE grant.persistent]
    /\ UNCHANGED notGrantVars

GrantNext ==
    \/ \E session \in Sessions, file \in EditedFiles, action \in EditActions :
          EditRequest(session, file, action)
    \/ \E action \in PermissionActions : GrantAnswer(action)

GrantSpec == AgentInit /\ [][GrantNext]_vars

----------------------------------------------------------------------------
(* Properties of persistent grants *)

\* C37: an edit proceeds without a prompt only if the user has given a
\* persistent grant for an edit of the same file in the same session.
C37_GrantCoversOneFileOneSession ==
    (grant.pc = "returned" /\ grant.granted /\ ~grant.prompted) =>
        [session |-> grant.session, file |-> grant.file] \in grant.persistent

----------------------------------------------------------------------------
(* The messages view: messagesCmp.Update (repl/messages.go, lines 43-80).   *)
(* The message service stores a message and publishes a created or updated  *)
(* event with it; the view handles the events and the selections of a       *)
(* session one at a time.  A message is [ID, SessionID, rev]: IDs are given *)
(* in creation order, rev counts the updates.                               *)

\* messages created in one behaviour
MaxMessages == 2
\* updates of one message
MaxUpdates == 1

CreatedEvent == "created"
UpdatedEvent == "updated"

notViewVars == <<fs, fileRecords, now, truns, out, snapshots, messages, aruns,
                 storeVars, clientVars, ls, sg, files, sidebar, edits, perm,
                 req, strm, grant, appm>>

\* Messages.Create in session s: the message is stored and published
MessageCreated(s) ==
    /\ mview.created < MaxMessages
    /\ LET msg == [ID |-> mview.created + 1, SessionID |-> s, rev |-> 0] IN
       mview' = [mview EXCEPT
                   !.created = mview.created + 1,
                   !.store[s] = Append(@, msg),
                   !.events = Append(@, [Type |-> CreatedEvent, Payload |-> msg])]
    /\ UNCHANGED notViewVars

\* Messages.Update of the i-th message of session s
MessageUpdated(s, i) ==
    /\ i \in 1..Len(mview.store[s])
    /\ mview.store[s][i].rev < MaxUpdates
    /\ LET msg == [mview.store[s][i] EXCEPT !.rev = @ + 1] IN
       mview' = [mview EXCEPT
                   !.store[s][i] = msg,
                   !.events = Append(@, [Type |-> UpdatedEvent, Payload |-> msg])]
    /\ UNCHANGED notViewVars

\* line 47: m.messages = append(m.messages, msg.Payload)
appendCreated(list, session, payload) == Append(list, payload)

\* lines 51-60: the first entry with the ID of the payload is replaced
replaceUpdated(list, payload) ==
    LET same == {i \in 1..Len(list) : list[i].ID = payload.ID}
    IN IF same = {} THEN list
       ELSE [list EXCEPT ![Min(same)] = payload]

\* messagesCmp.Update, lines 45-61: the next message event
UpdateMessageEvent ==
    /\ mview.events # <<>>
    /\ LET msg == Head(mview.events) IN
       mview' = [mview EXCEPT
                   !.events = Tail(mview.events),
                   !.messages =
                       IF msg.Type = CreatedEvent
                       THEN appendCreated(mview.messages, mview.session, msg.Payload)
                       ELSE replaceUpdated(mview.messages, msg.Payload),
                   !.last = msg]
    /\ UNCHANGED notViewVars

\* messagesCmp.Update, lines 68-72: a session is selected and its messages
\* are listed
UpdateSelectedSession(s) ==
    /\ mview' = [mview EXCEPT !.session = s, !.messages = mview.store[s],
                              !.last = [Type |-> "selected",
                                        Payload |-> [ID |-> 0, SessionID |-> s, rev |-> 0]]]
    /\ mview' # mview
    /\ UNCHANGED notViewVars

ViewNext ==
    \/ \E s \in Sessions : MessageCreated(s)
    \/ \E s \in Sessions, i \in 1..MaxMessages : MessageUpdated(s, i)
    \/ UpdateMessageEvent
    \/ \E s \in Sessions : UpdateSelectedSession(s)

ViewSpec == AgentInit /\ [][ViewNext]_vars

----------------------------------------------------------------------------
(* Properties of the messages view *)

\* C39: the list of the view holds only messages of the selected session,
\* each ID at most once and in creation order.
C39_ListOfSelectedSession ==
    /\ \A i \in 1..Len(mview.messages) :
          mview.messages[i].SessionID = mview.session
    /\ \A i, j \in 1..Len(mview.messages) :
          i < j => mview.messages[i].ID < mview.messages[j].ID

----------------------------------------------------------------------------
(* appModel.Update (part_000, lines 83-221): the dialogs, the pages and the *)
(* messages passed down to the current page.                                *)

\* the keys bound in keys, returnKey and logsKeyReturnKey, and one other key
KeyQuit == "ctrl+c"
KeyHelp == "ctrl+_"
KeyLogs == "ctrl+l"
KeyReturn == "esc"
KeyLogsReturn == "backspace"
KeyMsgs == {KeyQuit, KeyHelp, KeyLogs, KeyReturn, KeyLogsReturn, "a"}

\* the other messages: those Update has a case for, and one it has none for
OtherMsgs ==
    {"WindowSizeMsg", "InfoMsg", "LogMessage", "ClearStatusMsg",
     "PermissionRequest", "PermissionResponseMsg", "PageChangeMsg",
     "CloseQuitMsg", "tick"}

ChatPage == "chat"
LogsPage == "logs"
PageIDs == {ChatPage, LogsPage}

\* _, ok := msg.(tea.KeyMsg)
IsKeyMsg(msg) == msg \in KeyMsgs

\* the handling of a message: the model it leaves and the components the
\* message was passed to
Handled(a, toQuit, toPermissions, toPage) ==
    [model |-> a, toQuit |-> toQuit, toPermissions |-> toPermissions,
     toPage |-> toPage]

\* appModel.moveToPage, lines 223-236
moveToPage(a, pageID) ==
    [a EXCEPT !.previousPage = a.currentPage, !.currentPage = pageID]

\* the tail in which only the quit dialog keeps key messages from the page
passDownPastPermissions(a, msg) ==
    IF a.showQuit /\ IsKeyMsg(msg) THEN Handled(a, TRUE, FALSE, FALSE)
    ELSE Handled(a, a.showQuit, a.showPermissions, TRUE)

\* lines 200-220: the message goes to the quit dialog and to the permission
\* dialog when they are shown, each of which keeps a key message from going
\* further, and then to the current page
passDown(a, msg) ==
    IF a.showQuit /\ IsKeyMsg(msg) THEN Handled(a, TRUE, FALSE, FALSE)
    ELSE IF a.showPermissions /\ IsKeyMsg(msg)
    THEN Handled(a, a.showQuit, TRUE, FALSE)
    ELSE Handled(a, a.showQuit, a.showPermissions, TRUE)

\* lines 168-197: a key message
updateKey(a, msg) ==
    CASE msg = KeyQuit ->
           Handled([a EXCEPT !.showQuit = ~a.showQuit,
                             !.showHelp = FALSE], FALSE, FALSE, FALSE)
      [] msg = KeyLogsReturn ->
           IF a.currentPage = LogsPage
           THEN Handled(moveToPage(a, ChatPage), FALSE, FALSE, FALSE)
           ELSE passDown(a, msg)
      [] msg = KeyReturn ->
           IF a.showQuit
           THEN Handled([a EXCEPT !.showQuit = FALSE], FALSE, FALSE, FALSE)
           ELSE IF a.showHelp
           THEN Handled([a EXCEPT !.showHelp = FALSE], FALSE, FALSE, FALSE)
           ELSE passDown(a, msg)
      [] msg = KeyLogs ->
           Handled(moveToPage(a, LogsPage), FALSE, FALSE, FALSE)
      [] msg = KeyHelp ->
           IF a.showQuit THEN Handled(a, FALSE, FALSE, FALSE)
           ELSE Handled([a EXCEPT !.showHelp = ~a.showHelp], FALSE, FALSE, FALSE)
      [] OTHER -> passDown(a, msg)

\* appModel.Update, lines 83-221; pageID is the page of a PageChangeMsg
update(a, msg, pageID) ==
    CASE msg = "WindowSizeMsg" -> Handled(a, FALSE, TRUE, TRUE)
      [] msg = "InfoMsg" -> Handled(a, FALSE, FALSE, FALSE)
      [] msg = "PermissionRequest" ->
           Handled([a EXCEPT !.showPermissions = TRUE], FALSE, FALSE, FALSE)
      [] msg = "PermissionResponseMsg" ->
           Handled([a EXCEPT !.showPermissions = FALSE], FALSE, FALSE, FALSE)
      [] msg = "PageChangeMsg" -> Handled(moveToPage(a, pageID), FALSE, FALSE, FALSE)
      [] msg = "CloseQuitMsg" ->
           Handled([a EXCEPT !.showQuit = FALSE], FALSE, FALSE, FALSE)
      [] IsKeyMsg(msg) -> updateKey(a, msg)
      [] OTHER -> passDown(a, msg)

notAppVars == <<fs, fileRecords, now, truns, out, snapshots, messages, aruns,
                storeVars, clientVars, ls, sg, files, sidebar, edits, perm,
                req, strm, grant, mview>>

\* the program calls Update with the next message; last keeps the message,
\* the dialogs shown when it arrived and where it was passed
Update(msg, pageID) ==
    /\ msg # "PageChangeMsg" => pageID = ChatPage
    /\ LET h == update(appm.model, msg, pageID) IN
       appm' = [model |-> h.model,
                last |-> [msg |-> msg,
                          showQuit |-> appm.model.showQuit,
                          showPermissions |-> appm.model.showPermissions,
                          toQuit |-> h.toQuit,
                          toPermissions |-> h.toPermissions,
                          toPage |-> h.toPage]]
    /\ appm' # appm
    /\ UNCHANGED notAppVars

AppNext ==
    \E msg \in KeyMsgs \cup OtherMsgs, pageID \in PageIDs : Update(msg, pageID)

AppSpec == AgentInit /\ [][AppNext]_vars

----------------------------------------------------------------------------
(* Properties of appModel.Update *)

\* C40: a key message that arrives while the quit dialog or the permission
\* dialog is shown is not passed to the current page.
C40_NoKeyToPageUnderDialog ==
    (/\ IsKeyMsg(appm.last.msg)
     /\ appm.last.showQuit \/ appm.last.showPermissions)
    => ~appm.last.toPage

\* a key with no binding arrived under the permission dialog, which got it
C40_Witness ==
    /\ appm.last.msg = "a"
    /\ appm.last.showPermissions
    /\ ~appm.last.showQuit
    /\ appm.last.toPermissions
    /\ ~appm.last.toPage

====
